---------------------------- MODULE Spec2Model ----------------------------
(***************************************************************************)
(* Undirected weighted graph store (sorted vertex list, sorted adjacency   *)
(* lists) with the binary min-heap and the Prim / Dijkstra routines that   *)
(* run on it.                                                              *)
(*                                                                         *)
(* Names are C strings, modelled as sequences of byte values ("A" is       *)
(* <<65>>); strcmp, strncpy and isalnum are modelled byte by byte.  A      *)
(* pointer to a Vertex is modelled by the vertex's name (names are unique  *)
(* and immutable once stored), a pointer &vertices[i] by the index i, and  *)
(* a linked list by the sequence of its nodes from the head.  NULL graph   *)
(* and NULL string arguments are not modelled.                             *)
(***************************************************************************)
EXTENDS Integers, Sequences, FiniteSets, TLC

VARIABLES
    g,      \* struct Graph: [v_head, v_count, e_count]
    call,   \* the entry point last called (its arguments where it has run state)
    ret,    \* <<v>> when that call returned the value v, <<>> when it returns none
    pre,    \* history: v_count and e_count as they were before that call
    pc,     \* position of the running routine ("idle" between calls)
    run,    \* the running routine's locals
    out     \* what the routine printed, as structured data

vars == <<g, call, ret, pre, pc, run, out>>

(***************************************************************************)
(* Bounds of the model.                                                    *)
(***************************************************************************)
\* number of valid names offered to the graph-store specification
NumNames == 3
\* number of vertices of the graphs the algorithm specifications start from
NumVertices == 4
\* number of vertices of the graphs that hold a name of MAX_NAME_LEN bytes
NumLongVertices == 3
\* number of vertices of the graphs the traversals run on
NumTravVertices == 4
\* largest number of entries the heap specifications let the heap hold
MaxHeapSize == 4
\* capacity the heap of the heap specifications is created with
HeapCap == 2
\* capacity the scratch stack and queue of the traversals are created with
ScratchCap == 2

(***************************************************************************)
(* Program constants.                                                      *)
(***************************************************************************)
MAX_NAME_LEN == 256
MIN_WEIGHT == 1
MAX_WEIGHT == 100
\* SIZE_MAX is (size_t)-1; it is only ever compared with slot indices and heap
\* sizes, so it is modelled by the largest integer TLC represents
SIZE_MAX == 2147483647
\* INF of algorithms/mst/mst.c and algorithms/shortest_path/shortest_path.c (INT_MAX)
INF == 2147483647
\* INF of FINAL/mst/mst.c
INF_FINAL == 999999
\* the rows of bfs's visited and neighbors tables (FINAL/graph/graph.h)
MAX_VERTICES == 100
\* the rows of the local arrays of primMST and shortestPath
MAX_V == 100

(***************************************************************************)
(* Undefined behaviour.  A routine that stores past the last row of one of *)
(* its local arrays, or reads or writes an array whose block it has given  *)
(* back to the allocator, has no behaviour the source determines from that *)
(* statement on: what it prints, what its locals hold and whether it       *)
(* returns depend on the build and on the run.  The model does not pick    *)
(* among them.  Such a call ends in pc = "killed" (the process is ended by *)
(* a signal) or in pc = "undefined" (it goes on), its locals replaced by   *)
(* Undefined(alg) and what it printed or returned by Undetermined: records *)
(* that say only that nothing is known.                                    *)
(***************************************************************************)
Undefined(alg) == [alg |-> alg, undefined |-> TRUE]

IsUndefined(st) == "undefined" \in DOMAIN st

Undetermined == [undetermined |-> TRUE]

UndefinedPcs == {"killed", "undefined"}

(***************************************************************************)
(* C strings.                                                              *)
(***************************************************************************)
\* the byte at 0-based offset i of the C string s, 0 being the terminator
ByteAt(s, i) == IF i < Len(s) THEN s[i + 1] ELSE 0

\* the offsets up to the end of the shorter string at which a and b differ
strcmp_diff(a, b) ==
    {i \in 0..(IF Len(a) < Len(b) THEN Len(a) ELSE Len(b)) : ByteAt(a, i) # ByteAt(b, i)}

\* strcmp: negative, zero or positive by the first byte that differs, bytes
\* compared as unsigned char
strcmp(a, b) ==
    LET D == strcmp_diff(a, b)
    IN  IF D = {} THEN 0
        ELSE LET i == CHOOSE i \in D : \A j \in D : i <= j
             IN  IF ByteAt(a, i) < ByteAt(b, i) THEN -1 ELSE 1

\* strncpy(dst, src, n) followed by dst[n] = '\0': at most n bytes of src
strncpy_term(src, n) == IF Len(src) <= n THEN src ELSE SubSeq(src, 1, n)

\* isalnum in the C locale
isalnum(c) == (c >= 48 /\ c <= 57) \/ (c >= 65 /\ c <= 90) \/ (c >= 97 /\ c <= 122)

is_valid_name(name) ==
    /\ ~(Len(name) = 0 \/ Len(name) > MAX_NAME_LEN)
    /\ \A i \in 1..Len(name) : ~(~isalnum(name[i]) /\ name[i] # 95)

(***************************************************************************)
(* Graph store.                                                            *)
(* Vertex  = [name, adj]    (adj: the adjacency list from its head)        *)
(* AdjNode = [dst, weight]  (dst: the name of the vertex pointed to)       *)
(***************************************************************************)
vertex_create(name) == [name |-> strncpy_term(name, MAX_NAME_LEN), adj |-> <<>>]

adj_create(dst, weight) == [dst |-> dst, weight |-> weight]

\* mutant of vertex_list_insert: the new vertex always becomes the head
vertex_list_insert_front(head, v_new) == <<v_new>> \o head

RECURSIVE vertex_list_insert(_, _)
vertex_list_insert(head, v_new) ==
    IF head # <<>> /\ strcmp(Head(head).name, v_new.name) < 0
    THEN <<Head(head)>> \o vertex_list_insert(Tail(head), v_new)
    ELSE <<v_new>> \o head

\* position (1-based) in the list of the node adj_find returns, 0 for NULL
RECURSIVE adj_find_from(_, _, _)
adj_find_from(head, dst_name, i) ==
    IF i <= Len(head) /\ strcmp(head[i].dst, dst_name) < 0
    THEN adj_find_from(head, dst_name, i + 1)
    ELSE IF i <= Len(head) /\ strcmp(head[i].dst, dst_name) = 0 THEN i ELSE 0

adj_find(head, dst_name) == adj_find_from(head, dst_name, 1)

\* mutant of adj_list_insert: the new node always becomes the head
adj_list_insert_front(head, a_new) == <<a_new>> \o head

\* mutant of adj_list_insert: a duplicate is freed without its weight being stored
RECURSIVE adj_list_insert_keep(_, _)
adj_list_insert_keep(head, a_new) ==
    IF head # <<>> /\ strcmp(Head(head).dst, a_new.dst) < 0
    THEN <<Head(head)>> \o adj_list_insert_keep(Tail(head), a_new)
    ELSE IF head # <<>> /\ strcmp(Head(head).dst, a_new.dst) = 0
         THEN head
         ELSE <<a_new>> \o head

RECURSIVE adj_list_insert(_, _)
adj_list_insert(head, a_new) ==
    IF head # <<>> /\ strcmp(Head(head).dst, a_new.dst) < 0
    THEN <<Head(head)>> \o adj_list_insert(Tail(head), a_new)
    ELSE IF head # <<>> /\ strcmp(Head(head).dst, a_new.dst) = 0
         THEN <<[Head(head) EXCEPT !.weight = a_new.weight]>> \o Tail(head)
         ELSE <<a_new>> \o head

graph_create == [v_head |-> <<>>, v_count |-> 0, e_count |-> 0]

\* position (1-based) in the vertex list of the vertex found, 0 for NULL
RECURSIVE graph_find_vertex_from(_, _, _)
graph_find_vertex_from(G, name, i) ==
    IF i <= Len(G.v_head) /\ strcmp(G.v_head[i].name, name) < 0
    THEN graph_find_vertex_from(G, name, i + 1)
    ELSE IF i <= Len(G.v_head) /\ strcmp(G.v_head[i].name, name) = 0 THEN i ELSE 0

\* mutant of graph_find_vertex: only the head of the list is looked at
graph_find_vertex_head(G, name) ==
    IF Len(G.v_head) >= 1 /\ strcmp(G.v_head[1].name, name) = 0 THEN 1 ELSE 0

graph_find_vertex(G, name) == graph_find_vertex_from(G, name, 1)

\* mutant of add_vertex_result: v_count is incremented before the duplicate test
add_vertex_result_count_first(G, name, alloc_ok) ==
    IF ~is_valid_name(name) THEN [g |-> G, ret |-> FALSE]
    ELSE IF graph_find_vertex(G, name) # 0
         THEN [g |-> [G EXCEPT !.v_count = G.v_count + 1], ret |-> FALSE]
    ELSE IF ~alloc_ok THEN [g |-> G, ret |-> FALSE]
    ELSE [g |-> [G EXCEPT !.v_head = vertex_list_insert(G.v_head, vertex_create(name)),
                          !.v_count = G.v_count + 1],
          ret |-> TRUE]

\* graph_add_vertex as a function of the graph: [g |-> graph after, ret |-> result].
\* alloc_ok: whether vertex_create's calloc succeeds.
add_vertex_result(G, name, alloc_ok) ==
    IF ~is_valid_name(name) THEN [g |-> G, ret |-> FALSE]
    ELSE IF graph_find_vertex(G, name) # 0 THEN [g |-> G, ret |-> FALSE]
    ELSE IF ~alloc_ok THEN [g |-> G, ret |-> FALSE]
    ELSE [g |-> [G EXCEPT !.v_head = vertex_list_insert(G.v_head, vertex_create(name)),
                          !.v_count = G.v_count + 1],
          ret |-> TRUE]

\* mutant of is_new_edge: every successful call counts as a new edge
is_new_edge_always(G, u, v_name) == TRUE

\* mutant of insert_both: only the node u -> v is inserted
insert_one_way(v_head, u, v, weight) ==
    [v_head EXCEPT ![u].adj = adj_list_insert(@, adj_create(v_head[v].name, weight))]

\* graph_add_edge, line 224: the edge is new when u's list has no entry for v_name
is_new_edge(G, u, v_name) == adj_find(G.v_head[u].adj, v_name) = 0

\* graph_add_edge, lines 226-234: both mirrored nodes, each inserted (or the weight
\* updated) in its list; u and v are positions in the vertex list
insert_both(v_head, u, v, weight) ==
    LET a_uv == adj_create(v_head[v].name, weight)
        a_vu == adj_create(v_head[u].name, weight)
        h1 == [v_head EXCEPT ![u].adj = adj_list_insert(@, a_uv)]
    IN  [h1 EXCEPT ![v].adj = adj_list_insert(@, a_vu)]

\* graph_add_edge as a function of the graph.  alloc: "ok", or which adj_create fails.
add_edge_result(G, u_name, v_name, weight, alloc) ==
    IF ~is_valid_name(u_name) \/ ~is_valid_name(v_name) THEN [g |-> G, ret |-> FALSE]
    ELSE IF strcmp(u_name, v_name) = 0 THEN [g |-> G, ret |-> FALSE]
    ELSE IF weight < MIN_WEIGHT \/ weight > MAX_WEIGHT THEN [g |-> G, ret |-> FALSE]
    ELSE LET u == graph_find_vertex(G, u_name)
             v == graph_find_vertex(G, v_name)
         IN  IF u = 0 \/ v = 0 THEN [g |-> G, ret |-> FALSE]
             ELSE LET new_edge == is_new_edge(G, u, v_name)
                  IN  IF alloc = "fail_uv" THEN [g |-> G, ret |-> FALSE]
                      ELSE IF alloc = "fail_vu" THEN [g |-> G, ret |-> FALSE]
                      ELSE [g |-> [G EXCEPT !.v_head = insert_both(G.v_head, u, v, weight),
                                            !.e_count = IF new_edge THEN G.e_count + 1
                                                        ELSE G.e_count],
                            ret |-> TRUE]

(***************************************************************************)
(* Queries of the graph store.                                             *)
(***************************************************************************)
graph_get_degree(G, name) ==
    LET v == graph_find_vertex(G, name)
    IN  IF v = 0 THEN -1 ELSE Len(G.v_head[v].adj)

graph_edge_exists(G, u_name, v_name) ==
    LET u == graph_find_vertex(G, u_name)
    IN  u # 0 /\ adj_find(G.v_head[u].adj, v_name) # 0

RECURSIVE edge_weight_scan(_, _, _)
edge_weight_scan(adj, v_name, i) ==
    IF i > Len(adj) THEN -1
    ELSE IF strcmp(adj[i].dst, v_name) = 0 THEN adj[i].weight
    ELSE edge_weight_scan(adj, v_name, i + 1)

graph_get_edge_weight(G, u_name, v_name) ==
    LET u == graph_find_vertex(G, u_name)
    IN  IF u = 0 THEN -1 ELSE edge_weight_scan(G.v_head[u].adj, v_name, 1)

\* graph_get_all_vertices (FINAL/graph/graph.c 301-310): the names in list
\* order, each through strncpy(names[count], v->name, MAX_NAME_LEN) into a row of
\* MAX_NAME_LEN bytes; a row holding a name of MAX_NAME_LEN bytes has no
\* terminator
graph_get_all_vertices(G) ==
    [i \in 1..Len(G.v_head) |-> strncpy_term(G.v_head[i].name, MAX_NAME_LEN)]

\* the C string read at row i (from 1) of a char[][MAX_NAME_LEN] array whose
\* first Len(rows) rows were written by graph_get_all_vertices: a row without
\* terminator runs on into the next row, and the last one into the bytes that
\* follow the written rows, which the routine never initialised (tail)
RECURSIVE row_string(_, _, _)
row_string(rows, i, tail) ==
    IF i > Len(rows) THEN tail
    ELSE IF Len(rows[i]) < MAX_NAME_LEN THEN rows[i]
    ELSE rows[i] \o row_string(rows, i + 1, tail)

\* graph_get_neighbors (FINAL/graph/graph.c 264-275): -1 when the vertex is
\* absent, otherwise the neighbour names in adjacency order, each through
\* strncpy(.., MAX_NAME_LEN) and a terminator stored at offset MAX_NAME_LEN - 1
graph_get_neighbors(G, name) ==
    LET v == graph_find_vertex(G, name)
    IN  IF v = 0 THEN [count |-> -1, neighbors |-> <<>>]
        ELSE [count |-> Len(G.v_head[v].adj),
              neighbors |-> [i \in 1..Len(G.v_head[v].adj) |->
                                strncpy_term(G.v_head[v].adj[i].dst, MAX_NAME_LEN - 1)]]

\* graph_vertex_exists (FINAL/graph/graph.c 258-260)
graph_vertex_exists(G, name) == graph_find_vertex(G, name) # 0

(***************************************************************************)
(* Inputs.                                                                 *)
(***************************************************************************)
\* "B", "A", "AB", "_", "a", "A1", "b"
NamePool == << <<66>>, <<65>>, <<65, 66>>, <<95>>, <<97>>, <<65, 49>>, <<98>> >>

Names == {NamePool[i] : i \in 1..NumNames}

\* "", "A-", and a name of MAX_NAME_LEN + 1 letters
BadNames == {<<>>, <<65, 45>>, [i \in 1..(MAX_NAME_LEN + 1) |-> 65]}

AllNames == Names \cup BadNames

AllWeights == {MIN_WEIGHT - 1, MIN_WEIGHT, MAX_WEIGHT, MAX_WEIGHT + 1}

AllocOutcomes == {"ok", "fail_uv", "fail_vu"}

(***************************************************************************)
(* The graph-store operations as actions.                                  *)
(***************************************************************************)
Init ==
    /\ g = graph_create
    /\ call = [op |-> "graph_create"]
    /\ ret = <<>>
    /\ pre = [v_count |-> 0, e_count |-> 0]
    /\ pc = "idle"
    /\ run = [alg |-> "none"]
    /\ out = <<>>

graph_add_vertex(name, alloc_ok) ==
    /\ pc = "idle"
    /\ LET r == add_vertex_result(g, name, alloc_ok)
       IN  /\ g' = r.g
           /\ ret' = <<r.ret>>
    /\ call' = [op |-> "graph_add_vertex"]
    /\ pre' = [v_count |-> g.v_count, e_count |-> g.e_count]
    /\ UNCHANGED <<pc, run, out>>

graph_add_edge(u_name, v_name, weight, alloc) ==
    /\ pc = "idle"
    /\ LET r == add_edge_result(g, u_name, v_name, weight, alloc)
       IN  /\ g' = r.g
           /\ ret' = <<r.ret>>
    /\ call' = [op |-> "graph_add_edge"]
    /\ pre' = [v_count |-> g.v_count, e_count |-> g.e_count]
    /\ UNCHANGED <<pc, run, out>>

Next ==
    \/ \E name \in AllNames, alloc_ok \in BOOLEAN : graph_add_vertex(name, alloc_ok)
    \/ \E u_name \in AllNames, v_name \in AllNames, weight \in AllWeights,
          alloc \in AllocOutcomes :
            graph_add_edge(u_name, v_name, weight, alloc)

Spec == Init /\ [][Next]_vars

(***************************************************************************)
(* Binary min-heap (data_structures/heap/heap.c; FINAL/heap/heap.c has the *)
(* same swap, sift_up, sift_down, heap_create, heap_extract_min and        *)
(* heap_decrease_key).                                                     *)
(* Heap = [size, cap, key, data]; key and data are the slots 0..size-1 of  *)
(* the two parallel arrays (the slots from size on are never read).        *)
(* realloc failing inside grow is not modelled here.                       *)
(***************************************************************************)
swap(h, i, j) ==
    [h EXCEPT !.key = [h.key EXCEPT ![i] = h.key[j], ![j] = h.key[i]],
              !.data = [h.data EXCEPT ![i] = h.data[j], ![j] = h.data[i]]]

\* sift_up that leaves the entry in the slot it is given
sift_up_none(h, i) == h

RECURSIVE sift_up(_, _)
sift_up(h, i) ==
    IF i # 0 /\ h.key[(i - 1) \div 2] > h.key[i]
    THEN LET p == (i - 1) \div 2 IN sift_up(swap(h, i, p), p)
    ELSE h

\* sift_down that stops at the slot it is given
sift_down_none(h, i) == h

RECURSIVE sift_down(_, _)
sift_down(h, i) ==
    LET l == 2 * i + 1
        r == l + 1
        s1 == IF l < h.size /\ h.key[l] < h.key[i] THEN l ELSE i
        smallest == IF r < h.size /\ h.key[r] < h.key[s1] THEN r ELSE s1
    IN  IF smallest = i THEN h ELSE sift_down(swap(h, i, smallest), smallest)

heap_create(init_cap) ==
    [size |-> 0, cap |-> IF init_cap = 0 THEN 16 ELSE init_cap,
     key |-> [i \in 0..(-1) |-> 0], data |-> [i \in 0..(-1) |-> 0]]

\* grow, both reallocations succeeding
grow(h) == [h EXCEPT !.cap = h.cap * 2]

\* heap_push, lines 94-99: the entry is written to slot h->size, sifted up, and
\* the slot it was written to is returned
push_entry(h, item, key) ==
    LET h1 == IF h.size = h.cap THEN grow(h) ELSE h
        idx == h1.size
        h2 == [h1 EXCEPT !.size = idx + 1,
                         !.key = [i \in 0..idx |-> IF i < idx THEN h1.key[i] ELSE key],
                         !.data = [i \in 0..idx |-> IF i < idx THEN h1.data[i] ELSE item]]
    IN  [h |-> sift_up(h2, idx), idx |-> idx]

\* heap_push of data_structures/heap/heap.c: [h |-> heap after, idx |-> returned index]
heap_push(h, item, key) ==
    IF key < 0 THEN [h |-> h, idx |-> SIZE_MAX] ELSE push_entry(h, item, key)

\* heap_push of FINAL/heap/heap.c, which does not test the key
heap_push_FINAL(h, item, key) == push_entry(h, item, key)

heap_is_empty(h) == h.size = 0

\* heap_extract_min that returns the root and leaves it in the heap
heap_extract_min_keep(h) ==
    IF h.size = 0 THEN [h |-> h, null |-> TRUE]
    ELSE [h |-> h, null |-> FALSE, out |-> h.data[0], out_key |-> h.key[0]]

\* heap_extract_min: [h |-> heap after, null |-> whether NULL is returned,
\*                    out |-> the payload, out_key |-> its key]
heap_extract_min(h) ==
    IF h.size = 0 THEN [h |-> h, null |-> TRUE]
    ELSE LET size == h.size - 1
             moved == [h EXCEPT !.size = size,
                                !.key = [i \in 0..(size - 1) |->
                                            IF i = 0 THEN h.key[size] ELSE h.key[i]],
                                !.data = [i \in 0..(size - 1) |->
                                            IF i = 0 THEN h.data[size] ELSE h.data[i]]]
         IN  [h |-> IF size # 0 THEN sift_down(moved, 0) ELSE moved,
              null |-> FALSE, out |-> h.data[0], out_key |-> h.key[0]]

\* heap_decrease_key without the test new_key >= h->key[idx]
heap_decrease_key_any(h, idx, new_key) ==
    IF idx >= h.size THEN [h |-> h, ret |-> FALSE]
    ELSE [h |-> sift_up([h EXCEPT !.key[idx] = new_key], idx), ret |-> TRUE]

\* heap_decrease_key: [h |-> heap after, ret |-> result]
heap_decrease_key(h, idx, new_key) ==
    IF idx >= h.size THEN [h |-> h, ret |-> FALSE]
    ELSE IF new_key >= h.key[idx] THEN [h |-> h, ret |-> FALSE]
    ELSE [h |-> sift_up([h EXCEPT !.key[idx] = new_key], idx), ret |-> TRUE]

(***************************************************************************)
(* Helpers shared by algorithms/mst/mst.c and                              *)
(* algorithms/shortest_path/shortest_path.c.  C arrays are functions on    *)
(* 0..n-1; vertices[i] is a Vertex pointer, so a name; the heap payload    *)
(* &vertices[i] is the index i.                                            *)
(***************************************************************************)
build_vertex_array(G) == [i \in 0..(G.v_count - 1) |-> G.v_head[i + 1].name]

RECURSIVE find_vertex_index_from(_, _, _, _)
find_vertex_index_from(vertices, n, name, i) ==
    IF i >= n THEN -1
    ELSE IF strcmp(vertices[i], name) = 0 THEN i
    ELSE find_vertex_index_from(vertices, n, name, i + 1)

find_vertex_index(vertices, n, name) == find_vertex_index_from(vertices, n, name, 0)

\* the Vertex a Vertex pointer points to
VertexAt(G, vptr) == G.v_head[CHOOSE i \in 1..Len(G.v_head) : G.v_head[i].name = vptr]

(***************************************************************************)
(* cmd_mst (algorithms/mst/mst.c): Prim with heap_decrease_key through the *)
(* heap_indices side table.  The malloc and heap_create calls succeed.     *)
(***************************************************************************)
compare_edges(ea, eb) ==
    LET cmp == strcmp(ea.u, eb.u)
    IN  IF cmp = 0 THEN strcmp(ea.v, eb.v) ELSE cmp

\* qsort(mst_edges, edge_count, .., compare_edges): the edges in comparator order
\* (no two recorded edges compare equal, so the order is determined)
RECURSIVE sorted_insert(_, _)
sorted_insert(sorted, e) ==
    IF sorted # <<>> /\ compare_edges(Head(sorted), e) <= 0
    THEN <<Head(sorted)>> \o sorted_insert(Tail(sorted), e)
    ELSE <<e>> \o sorted

RECURSIVE qsort(_)
qsort(edges) ==
    IF edges = <<>> THEN <<>>
    ELSE sorted_insert(qsort(SubSeq(edges, 1, Len(edges) - 1)), edges[Len(edges)])

\* lines 96-150: the locals once the root has been pushed
mst_begin(G) ==
    LET vertices == build_vertex_array(G)
        n == G.v_count
        pushed == heap_push(heap_create(n), 0, 0)
    IN  [alg |-> "cmd_mst", vertices |-> vertices, n |-> n,
         key |-> [i \in 0..(n - 1) |-> IF i = 0 THEN 0 ELSE INF],
         parent |-> [i \in 0..(n - 1) |-> -1],
         in_mst |-> [i \in 0..(n - 1) |-> FALSE],
         heap_indices |-> [i \in 0..(n - 1) |-> IF i = 0 THEN pushed.idx ELSE SIZE_MAX],
         mst_edges |-> <<>>, total_weight |-> 0, edge_count |-> 0,
         pq |-> pushed.h]

\* mst_update_keys that pushes a new entry at every lowering of a key
RECURSIVE mst_update_keys_push_always(_, _, _, _)
mst_update_keys_push_always(st, adj, j, u_idx) ==
    IF j > Len(adj) THEN st
    ELSE LET v_idx == find_vertex_index(st.vertices, st.n, adj[j].dst)
             w == adj[j].weight
         IN  IF v_idx = -1 \/ st.in_mst[v_idx] \/ ~(w < st.key[v_idx])
             THEN mst_update_keys_push_always(st, adj, j + 1, u_idx)
             ELSE LET pushed == heap_push(st.pq, v_idx, w)
                  IN  mst_update_keys_push_always(
                          [st EXCEPT !.key[v_idx] = w, !.parent[v_idx] = u_idx,
                                     !.heap_indices[v_idx] = pushed.idx,
                                     !.pq = pushed.h],
                          adj, j + 1, u_idx)

\* lines 183-199: the loop over u's adjacency list, from its j-th node on
RECURSIVE mst_update_keys(_, _, _, _)
mst_update_keys(st, adj, j, u_idx) ==
    IF j > Len(adj) THEN st
    ELSE LET v_idx == find_vertex_index(st.vertices, st.n, adj[j].dst)
             w == adj[j].weight
         IN  IF v_idx = -1 \/ st.in_mst[v_idx] THEN mst_update_keys(st, adj, j + 1, u_idx)
             ELSE IF ~(w < st.key[v_idx]) THEN mst_update_keys(st, adj, j + 1, u_idx)
             ELSE LET st1 == [st EXCEPT !.key[v_idx] = w, !.parent[v_idx] = u_idx]
                      st2 == IF st1.heap_indices[v_idx] = SIZE_MAX
                             THEN LET pushed == heap_push(st1.pq, v_idx, w)
                                  IN  [st1 EXCEPT !.heap_indices[v_idx] = pushed.idx,
                                                  !.pq = pushed.h]
                             ELSE [st1 EXCEPT !.pq =
                                     heap_decrease_key(st1.pq, st1.heap_indices[v_idx], w).h]
                  IN  mst_update_keys(st2, adj, j + 1, u_idx)

\* mst_record_edge that stores the parent's name first whatever the order
mst_record_edge_parent_first(st, u_idx) ==
    IF st.parent[u_idx] = -1 THEN st
    ELSE LET e == [u |-> st.vertices[st.parent[u_idx]], v |-> st.vertices[u_idx],
                   weight |-> st.key[u_idx]]
         IN  [st EXCEPT !.mst_edges = Append(@, e),
                        !.total_weight = @ + st.key[u_idx],
                        !.edge_count = @ + 1]

\* lines 164-180: the edge (parent, u) stored with the smaller name first
mst_record_edge(st, u_idx) ==
    IF st.parent[u_idx] = -1 THEN st
    ELSE LET p_name == st.vertices[st.parent[u_idx]]
             u_name == st.vertices[u_idx]
             e == IF strcmp(p_name, u_name) < 0
                  THEN [u |-> p_name, v |-> u_name, weight |-> st.key[u_idx]]
                  ELSE [u |-> u_name, v |-> p_name, weight |-> st.key[u_idx]]
         IN  [st EXCEPT !.mst_edges = Append(@, e),
                        !.total_weight = @ + st.key[u_idx],
                        !.edge_count = @ + 1]

\* lines 153-199: one iteration of the main loop (the heap is not empty)
mst_iteration(G, st) ==
    LET x == heap_extract_min(st.pq)
        st0 == [st EXCEPT !.pq = x.h]
        u == st.vertices[x.out]
        u_idx == find_vertex_index(st.vertices, st.n, u)
    IN  IF u_idx = -1 \/ st.in_mst[u_idx] THEN st0
        ELSE LET st1 == [st0 EXCEPT !.in_mst[u_idx] = TRUE,
                                    !.heap_indices[u_idx] = SIZE_MAX]
                 st2 == mst_record_edge(st1, u_idx)
             IN  mst_update_keys(st2, VertexAt(G, u).adj, 1, u_idx)

\* what cmd_mst prints: the vertex names, the sorted edges, the total weight
mst_output(vertices, n, edges, total_weight) ==
    [V |-> [i \in 1..n |-> vertices[i - 1]],
     E |-> [i \in 1..Len(edges) |-> <<edges[i].u, edges[i].v, edges[i].weight>>],
     total |-> total_weight]

(***************************************************************************)
(* primMST (FINAL/mst/mst.c): Prim that pushes a duplicate heap entry on   *)
(* every relaxation and skips the entries of vertices already in the tree. *)
(* names, key, inMST and parent are functions on 0..n-1; a heap payload is *)
(* the malloc'd copy of a name, so a name.  The malloc and heap            *)
(* allocations succeed.  names, key, inMST, parent, heapNames and edges    *)
(* have MAX_V rows: on a graph of more vertices graph_get_all_vertices     *)
(* stores past names (line 41) and the routine is Undefined from there.      *)
(***************************************************************************)
\* lines 45-54: the exchange sort of names[0..n-1], from the pair (i, j) on
RECURSIVE prim_sort_names(_, _, _, _)
prim_sort_names(names, n, i, j) ==
    IF i >= n - 1 THEN names
    ELSE IF j >= n THEN prim_sort_names(names, n, i + 1, i + 2)
    ELSE prim_sort_names(IF strcmp(names[i], names[j]) > 0
                         THEN [names EXCEPT ![i] = names[j], ![j] = names[i]]
                         ELSE names,
                         n, i, j + 1)

\* lines 68-74: the pushes of names[i] with key[i], from i on
RECURSIVE prim_push_all(_, _, _, _, _)
prim_push_all(h, names, key, n, i) ==
    IF i >= n THEN h
    ELSE prim_push_all(heap_push_FINAL(h, names[i], key[i]).h, names, key, n, i + 1)

\* lines 41-74: the locals when the main loop is first tested
prim_begin(G, tail) ==
    LET all == graph_get_all_vertices(G)
        n == Len(all)
        names == prim_sort_names([i \in 0..(n - 1) |-> row_string(all, i + 1, tail)],
                                 n, 0, 1)
        key == [i \in 0..(n - 1) |-> IF i = 0 THEN 0 ELSE INF_FINAL]
    IN  IF n > MAX_V THEN Undefined("primMST")
        ELSE [alg |-> "primMST", names |-> names, n |-> n,
              key |-> key,
              inMST |-> [i \in 0..(n - 1) |-> FALSE],
              parent |-> [i \in 0..(n - 1) |-> -1],
              edges |-> <<>>, edgeCount |-> 0, totalWeight |-> 0,
              minHeap |-> prim_push_all(heap_create(n), names, key, n, 0)]

\* lines 84-90: the index of u_name in names, -1 when it is not there
RECURSIVE prim_find_u(_, _, _, _)
prim_find_u(names, n, u_name, i) ==
    IF i >= n THEN -1
    ELSE IF strcmp(names[i], u_name) = 0 THEN i
    ELSE prim_find_u(names, n, u_name, i + 1)

\* the Edge (char u[MAX_NAME_LEN], v[MAX_NAME_LEN]; int weight) after
\* strcpy(u, a), strcpy(v, b) and weight = w, read back as C strings: a string
\* of MAX_NAME_LEN bytes in v has its terminator overwritten by the low byte
\* of weight (1..100, the bytes after it 0), one in u by the first byte of v
prim_edge(a, b, w) ==
    LET v == IF Len(b) < MAX_NAME_LEN THEN b
             ELSE SubSeq(b, 1, MAX_NAME_LEN) \o <<w>>
        u == IF Len(a) < MAX_NAME_LEN THEN a
             ELSE SubSeq(a, 1, MAX_NAME_LEN) \o v
    IN  [u |-> u, v |-> v, weight |-> w]

\* lines 97-111: the edge (parent[u], u) stored with the smaller name first
prim_record_edge(st, u) ==
    IF st.parent[u] = -1 THEN st
    ELSE LET a == st.names[st.parent[u]]
             b == st.names[u]
             e == IF strcmp(a, b) < 0
                  THEN prim_edge(a, b, st.key[u])
                  ELSE prim_edge(b, a, st.key[u])
         IN  [st EXCEPT !.edges = Append(@, e),
                        !.totalWeight = @ + st.key[u],
                        !.edgeCount = @ + 1]

\* lines 115-127: the loop over every vertex v, from v on
RECURSIVE prim_update_neighbors(_, _, _, _)
prim_update_neighbors(G, st, u, v) ==
    IF v >= st.n THEN st
    ELSE LET weight == graph_get_edge_weight(G, st.names[u], st.names[v])
         IN  IF ~st.inMST[v] /\ weight > 0 /\ weight < st.key[v]
             THEN prim_update_neighbors(
                      G,
                      [st EXCEPT !.key[v] = weight,
                                 !.parent[v] = u,
                                 !.minHeap = heap_push_FINAL(@, st.names[v], weight).h],
                      u, v + 1)
             ELSE prim_update_neighbors(G, st, u, v + 1)

\* prim_iteration without the inMST test of line 93
prim_iteration_no_skip(G, st) ==
    LET x == heap_extract_min(st.minHeap)
        st0 == [st EXCEPT !.minHeap = x.h]
        u == prim_find_u(st.names, st.n, x.out, 0)
    IN  IF IsUndefined(st) THEN st
        ELSE IF u = -1 THEN st0
        ELSE prim_update_neighbors(
                 G, prim_record_edge([st0 EXCEPT !.inMST[u] = TRUE], u), u, 0)

\* lines 80-127: one iteration of the main loop (the heap is not empty); the
\* locals of a routine that is Undefined stay so
prim_iteration(G, st) ==
    LET x == heap_extract_min(st.minHeap)
        st0 == [st EXCEPT !.minHeap = x.h]
        u == prim_find_u(st.names, st.n, x.out, 0)
    IN  IF IsUndefined(st) THEN st
        ELSE IF u = -1 \/ st.inMST[u] THEN st0
        ELSE prim_update_neighbors(
                 G, prim_record_edge([st0 EXCEPT !.inMST[u] = TRUE], u), u, 0)

\* lines 142-151: the exchange sort of edges[0..edgeCount-1] (here 1..edgeCount),
\* from the pair (i, j) on
RECURSIVE prim_sort_edges(_, _, _)
prim_sort_edges(edges, i, j) ==
    IF i >= Len(edges) THEN edges
    ELSE IF j > Len(edges) THEN prim_sort_edges(edges, i + 1, i + 2)
    ELSE prim_sort_edges(
             IF \/ strcmp(edges[i].u, edges[j].u) > 0
                \/ (strcmp(edges[i].u, edges[j].u) = 0 /\ strcmp(edges[i].v, edges[j].v) > 0)
             THEN [edges EXCEPT ![i] = edges[j], ![j] = edges[i]]
             ELSE edges,
             i, j + 1)

\* lines 154-174: what primMST prints
prim_output(st) ==
    LET sorted == prim_sort_edges(st.edges, 1, 2)
    IN  IF IsUndefined(st) THEN Undetermined
        ELSE [V |-> [i \in 1..st.n |-> st.names[i - 1]],
              E |-> [i \in 1..Len(sorted) |->
                        <<sorted[i].u, sorted[i].v, sorted[i].weight>>],
              total |-> st.totalWeight]

(***************************************************************************)
(* cmd_shortest_path (algorithms/shortest_path/shortest_path.c): Dijkstra  *)
(* with heap_decrease_key through the heap_indices side table and a break  *)
(* when the end vertex is extracted.  The malloc and heap_create calls     *)
(* succeed.  The printed line is [zero |-> TRUE] for "0", otherwise        *)
(* [zero |-> FALSE, path |-> the names printed, cost |-> the cost printed].*)
(***************************************************************************)
sp_print_zero == [zero |-> TRUE, path |-> <<>>, cost |-> 0]

\* lines 84-104: whether "0" is printed before any search
sp_early_zero(G, start, end) ==
    \/ G.v_count = 0
    \/ find_vertex_index(build_vertex_array(G), G.v_count, start) = -1
    \/ find_vertex_index(build_vertex_array(G), G.v_count, end) = -1

\* lines 90-140: the locals once the start vertex has been pushed
sp_begin(G, start, end) ==
    LET vertices == build_vertex_array(G)
        n == G.v_count
        start_idx == find_vertex_index(vertices, n, start)
        end_idx == find_vertex_index(vertices, n, end)
        pushed == heap_push(heap_create(n), start_idx, 0)
    IN  [alg |-> "cmd_shortest_path", start |-> start, end |-> end,
         vertices |-> vertices, n |-> n,
         start_idx |-> start_idx, end_idx |-> end_idx,
         dist |-> [i \in 0..(n - 1) |-> IF i = start_idx THEN 0 ELSE INF],
         parent |-> [i \in 0..(n - 1) |-> -1],
         heap_indices |-> [i \in 0..(n - 1) |->
                              IF i = start_idx THEN pushed.idx ELSE SIZE_MAX],
         pq |-> pushed.h, broke |-> FALSE]

\* sp_relax that lowers dist and sets parent but leaves the heap alone
RECURSIVE sp_relax_no_push(_, _, _, _)
sp_relax_no_push(st, adj, j, u_idx) ==
    IF j > Len(adj) THEN st
    ELSE LET v_idx == find_vertex_index(st.vertices, st.n, adj[j].dst)
             alt == st.dist[u_idx] + adj[j].weight
         IN  IF v_idx = -1 \/ ~(alt < st.dist[v_idx])
             THEN sp_relax_no_push(st, adj, j + 1, u_idx)
             ELSE sp_relax_no_push([st EXCEPT !.dist[v_idx] = alt, !.parent[v_idx] = u_idx],
                                   adj, j + 1, u_idx)

\* lines 156-173: the loop over u's adjacency list, from its j-th node on
RECURSIVE sp_relax(_, _, _, _)
sp_relax(st, adj, j, u_idx) ==
    IF j > Len(adj) THEN st
    ELSE LET v_idx == find_vertex_index(st.vertices, st.n, adj[j].dst)
             alt == st.dist[u_idx] + adj[j].weight
         IN  IF v_idx = -1 THEN sp_relax(st, adj, j + 1, u_idx)
             ELSE IF ~(alt < st.dist[v_idx]) THEN sp_relax(st, adj, j + 1, u_idx)
             ELSE LET st1 == [st EXCEPT !.dist[v_idx] = alt, !.parent[v_idx] = u_idx]
                      st2 == IF st1.heap_indices[v_idx] = SIZE_MAX
                             THEN LET pushed == heap_push(st1.pq, v_idx, alt)
                                  IN  [st1 EXCEPT !.heap_indices[v_idx] = pushed.idx,
                                                  !.pq = pushed.h]
                             ELSE [st1 EXCEPT !.pq =
                                     heap_decrease_key(st1.pq, st1.heap_indices[v_idx], alt).h]
                  IN  sp_relax(st2, adj, j + 1, u_idx)

\* lines 143-173: one iteration of the main loop (the heap is not empty);
\* broke records that the loop was left by the break of line 153
sp_iteration(G, st) ==
    LET x == heap_extract_min(st.pq)
        st0 == [st EXCEPT !.pq = x.h]
        u == st.vertices[x.out]
        u_idx == find_vertex_index(st.vertices, st.n, u)
    IN  IF u_idx = -1 THEN st0
        ELSE LET st1 == [st0 EXCEPT !.heap_indices[u_idx] = SIZE_MAX]
             IN  IF u_idx = st.end_idx THEN [st1 EXCEPT !.broke = TRUE]
                 ELSE sp_relax(st1, VertexAt(G, u).adj, 1, u_idx)

\* lines 186-191: the indices from current back to the start along parent
RECURSIVE sp_path(_, _)
sp_path(parent, current) ==
    IF current = -1 THEN <<>> ELSE <<current>> \o sp_path(parent, parent[current])

\* lines 194-197: the names of path[path_len-1], .., path[0]
sp_reverse_names(vertices, path) ==
    [i \in 1..Len(path) |-> vertices[path[Len(path) + 1 - i]]]

\* lines 177-202: the line printed after the loop
sp_output(st) ==
    IF st.dist[st.end_idx] = INF THEN sp_print_zero
    ELSE [zero |-> FALSE,
          path |-> sp_reverse_names(st.vertices, sp_path(st.parent, st.end_idx)),
          cost |-> st.dist[st.end_idx]]

(***************************************************************************)
(* shortestPath (FINAL/shortest_Path/shortest_Path.c): Dijkstra that scans *)
(* the dist array with minDistance, n - 1 rounds.  names, dist, visited    *)
(* and parent are functions on 0..n-1.  The printed line has the shape of  *)
(* cmd_shortest_path's.  names, dist, visited, parent and path have MAX_V  *)
(* rows: on a graph of more vertices graph_get_all_vertices stores past    *)
(* names (line 60) and the routine is Undefined from there.                  *)
(***************************************************************************)
\* minDistance, lines 42-47: the loop from i on, with min and min_index so far
RECURSIVE minDistance_from(_, _, _, _, _, _)
minDistance_from(dist, visited, n, i, min, min_index) ==
    IF i >= n THEN min_index
    ELSE IF ~visited[i] /\ dist[i] <= min
         THEN minDistance_from(dist, visited, n, i + 1, dist[i], i)
         ELSE minDistance_from(dist, visited, n, i + 1, min, min_index)

\* minDistance returning the first unvisited index whatever its distance
minDistance_first(dist, visited, n) ==
    IF \E i \in 0..(n - 1) : ~visited[i]
    THEN CHOOSE i \in 0..(n - 1) : ~visited[i] /\ \A j \in 0..(i - 1) : visited[j]
    ELSE -1

minDistance(dist, visited, n) == minDistance_from(dist, visited, n, 0, INF_FINAL, -1)

\* lines 71-74: the index found for name by the loop from i on, found so far
RECURSIVE spath_index(_, _, _, _, _)
spath_index(names, n, name, i, found) ==
    IF i >= n THEN found
    ELSE spath_index(names, n, name, i + 1,
                     IF strcmp(names[i], name) = 0 THEN i ELSE found)

\* lines 60-82: the locals when the main loop is first tested
spath_begin(G, start, end, tail) ==
    LET all == graph_get_all_vertices(G)
        n == Len(all)
        names == [i \in 0..(n - 1) |-> row_string(all, i + 1, tail)]
        startIndex == spath_index(names, n, start, 0, -1)
        endIndex == spath_index(names, n, end, 0, -1)
    IN  IF n > MAX_V THEN Undefined("shortestPath")
        ELSE [alg |-> "shortestPath", start |-> start, end |-> end,
              names |-> names, n |-> n,
              startIndex |-> startIndex, endIndex |-> endIndex,
              dist |-> [i \in 0..(n - 1) |-> IF i = startIndex THEN 0 ELSE INF_FINAL],
              visited |-> [i \in 0..(n - 1) |-> FALSE],
              parent |-> [i \in 0..(n - 1) |-> -1],
              count |-> 0, broke |-> FALSE]

\* lines 93-100: the loop over every vertex v, from v on
RECURSIVE spath_relax(_, _, _, _)
spath_relax(G, st, u, v) ==
    IF IsUndefined(st) THEN st
    ELSE IF v >= st.n THEN st
    ELSE LET weight == graph_get_edge_weight(G, st.names[u], st.names[v])
         IN  IF ~st.visited[v] /\ weight > 0 /\ st.dist[u] + weight < st.dist[v]
             THEN spath_relax(G, [st EXCEPT !.dist[v] = st.dist[u] + weight,
                                            !.parent[v] = u],
                              u, v + 1)
             ELSE spath_relax(G, st, u, v + 1)

\* lines 85-101: one round of the main loop (count < n - 1); the locals of a
\* routine that is Undefined stay so
spath_round(G, st) ==
    LET u == minDistance(st.dist, st.visited, st.n)
    IN  IF IsUndefined(st) THEN st
        ELSE IF u = -1 THEN [st EXCEPT !.broke = TRUE]
        ELSE spath_relax(G, [st EXCEPT !.visited[u] = TRUE, !.count = @ + 1], u, 0)

\* lines 104-119: the line printed after the loop
spath_output(st) ==
    IF IsUndefined(st) THEN Undetermined
    ELSE IF st.dist[st.endIndex] = INF_FINAL THEN sp_print_zero
    ELSE [zero |-> FALSE,
          path |-> sp_reverse_names(st.names, sp_path(st.parent, st.endIndex)),
          cost |-> st.dist[st.endIndex]]

(***************************************************************************)
(* Queue (FINAL/queue/queue.c): a circular buffer.                         *)
(* Queue = [data, front, rear, size, capacity]; data is a function on      *)
(* 0..capacity-1 whose slots outside the live range keep what was last     *)
(* stored there (NoItem where nothing was).  An item is a pointer: a       *)
(* vertex, or a malloc'd copy of a name, both modelled by the name.        *)
(***************************************************************************)
DEFAULT_CAPACITY == 16

\* the content of a slot of a freshly allocated array; it is never read
NoItem == <<-1>>

queue_create(init_cap) ==
    LET cap == IF init_cap = 0 THEN DEFAULT_CAPACITY ELSE init_cap
    IN  [data |-> [i \in 0..(cap - 1) |-> NoItem],
         front |-> 0, rear |-> 0, size |-> 0, capacity |-> cap]

\* queue_grow that keeps the slots in place instead of unwrapping them
queue_grow_in_place(queue) ==
    LET new_capacity == queue.capacity * 2
    IN  [data |-> [i \in 0..(new_capacity - 1) |->
                      IF i < queue.capacity THEN queue.data[i] ELSE NoItem],
         front |-> queue.front, rear |-> queue.capacity, size |-> queue.size,
         capacity |-> new_capacity]

\* queue_grow when its malloc succeeds
queue_grow(queue) ==
    LET new_capacity == queue.capacity * 2
    IN  [data |-> [i \in 0..(new_capacity - 1) |->
                      IF i < queue.size
                      THEN queue.data[(queue.front + i) % queue.capacity]
                      ELSE NoItem],
         front |-> 0, rear |-> queue.size, size |-> queue.size,
         capacity |-> new_capacity]

\* queue_enqueue: [queue, ret]; grow_ok is whether queue_grow's malloc succeeds
queue_enqueue(queue, data, grow_ok) ==
    IF queue.size >= queue.capacity /\ ~grow_ok THEN [queue |-> queue, ret |-> FALSE]
    ELSE LET q == IF queue.size >= queue.capacity THEN queue_grow(queue) ELSE queue
         IN  [queue |-> [q EXCEPT !.data[q.rear] = data,
                                  !.rear = (q.rear + 1) % q.capacity,
                                  !.size = q.size + 1],
              ret |-> TRUE]

\* queue_dequeue: [queue, ret], ret being NoItem for NULL
queue_dequeue(queue) ==
    IF queue.size = 0 THEN [queue |-> queue, ret |-> NoItem]
    ELSE [queue |-> [queue EXCEPT !.front = (queue.front + 1) % queue.capacity,
                                  !.size = queue.size - 1],
          ret |-> queue.data[queue.front]]

queue_is_empty(queue) == queue.size = 0

queue_size(queue) == queue.size

\* while (!queue_is_empty(scratch)) (void)queue_dequeue(scratch);
RECURSIVE queue_drain(_)
queue_drain(queue) ==
    IF queue_is_empty(queue) THEN queue ELSE queue_drain(queue_dequeue(queue).queue)

(***************************************************************************)
(* Stack (data_structures/stack/stack.c).                                  *)
(* Stack = [data, size, capacity]; data is a function on 0..capacity-1.    *)
(***************************************************************************)
stack_create(init_cap) ==
    LET cap == IF init_cap = 0 THEN DEFAULT_CAPACITY ELSE init_cap
    IN  [data |-> [i \in 0..(cap - 1) |-> NoItem], size |-> 0, capacity |-> cap]

\* stack_grow when its realloc succeeds
stack_grow(stack) ==
    LET new_capacity == stack.capacity * 2
    IN  [stack EXCEPT !.data = [i \in 0..(new_capacity - 1) |->
                                   IF i < stack.capacity THEN stack.data[i] ELSE NoItem],
                      !.capacity = new_capacity]

\* stack_push: [stack, ret]; grow_ok is whether stack_grow's realloc succeeds
stack_push(stack, data, grow_ok) ==
    IF stack.size >= stack.capacity /\ ~grow_ok THEN [stack |-> stack, ret |-> FALSE]
    ELSE LET s == IF stack.size >= stack.capacity THEN stack_grow(stack) ELSE stack
         IN  [stack |-> [s EXCEPT !.data[s.size] = data, !.size = s.size + 1],
              ret |-> TRUE]

\* stack_pop: [stack, ret], ret being NoItem for NULL
stack_pop(stack) ==
    IF stack.size = 0 THEN [stack |-> stack, ret |-> NoItem]
    ELSE [stack |-> [stack EXCEPT !.size = stack.size - 1],
          ret |-> stack.data[stack.size - 1]]

stack_is_empty(stack) == stack.size = 0

stack_size(stack) == stack.size

\* the drain loop left out: the stack is used as it was handed over
stack_drain_none(stack) == stack

\* while (!stack_is_empty(scratch)) (void)stack_pop(scratch);
RECURSIVE stack_drain(_)
stack_drain(stack) ==
    IF stack_is_empty(stack) THEN stack ELSE stack_drain(stack_pop(stack).stack)

(***************************************************************************)
(* cmd_bfs (algorithms/traversal/bfs.c): breadth-first traversal over the  *)
(* vertex pointers with a visited bitmap and the caller's scratch queue.   *)
(* The malloc and calloc calls and the queue's growth succeed.  What a     *)
(* traversal printed is [names |-> the names in the order printed,         *)
(* lines |-> the output split at its newlines, each line as the sequence   *)
(* of the names on it, which single spaces separate].                      *)
(***************************************************************************)
\* build_index_map: the vertex pointers in list order, on 0..v_count-1
build_index_map(G) == [i \in 0..(G.v_count - 1) |-> G.v_head[i + 1].name]

\* index_of, lines 55-62: the binary search on [lo, hi)
RECURSIVE index_of_from(_, _, _, _)
index_of_from(vec, lo, hi, name) ==
    IF ~(lo < hi) THEN -1
    ELSE LET mid == (lo + hi) \div 2
             cmp == strcmp(vec[mid], name)
         IN  IF cmp = 0 THEN mid
             ELSE IF cmp < 0 THEN index_of_from(vec, mid + 1, hi, name)
             ELSE index_of_from(vec, lo, mid, name)

index_of(vec, n, name) == index_of_from(vec, 0, n, name)

\* lines 68-79: cmd_bfs returns after putchar('\n') alone
cmd_bfs_early(G, start) ==
    G.v_count = 0 \/ index_of(build_index_map(G), G.v_count, start) < 0

\* lines 71-86: the locals when the loop is first tested
cmd_bfs_begin(G, start, scratch) ==
    LET vec == build_index_map(G)
        V == G.v_count
        s_idx == index_of(vec, V, start)
    IN  [alg |-> "cmd_bfs", start |-> start, vec |-> vec, V |-> V,
         visited |-> [i \in 0..(V - 1) |-> i = s_idx],
         scratch |-> queue_enqueue(queue_drain(scratch), vec[s_idx], TRUE).queue,
         names |-> <<>>]

\* cmd_bfs_neighbours leaving the loop after the node it starts at
cmd_bfs_neighbours_first_only(st, adj, k) ==
    IF k > Len(adj) THEN st
    ELSE LET v_idx == index_of(st.vec, st.V, adj[k].dst)
         IN  IF ~st.visited[v_idx]
             THEN [st EXCEPT !.visited[v_idx] = TRUE,
                             !.scratch = queue_enqueue(@, adj[k].dst, TRUE).queue]
             ELSE st

\* lines 95-101: the loop over u's adjacency list, from its k-th node on
RECURSIVE cmd_bfs_neighbours(_, _, _)
cmd_bfs_neighbours(st, adj, k) ==
    IF k > Len(adj) THEN st
    ELSE LET v_idx == index_of(st.vec, st.V, adj[k].dst)
         IN  IF ~st.visited[v_idx]
             THEN cmd_bfs_neighbours(
                      [st EXCEPT !.visited[v_idx] = TRUE,
                                 !.scratch = queue_enqueue(@, adj[k].dst, TRUE).queue],
                      adj, k + 1)
             ELSE cmd_bfs_neighbours(st, adj, k + 1)

\* lines 87-102: one iteration of the loop (the queue is not empty)
cmd_bfs_iteration(G, st) ==
    LET d == queue_dequeue(st.scratch)
        u == d.ret
    IN  cmd_bfs_neighbours([st EXCEPT !.scratch = d.queue, !.names = Append(@, u)],
                           VertexAt(G, u).adj, 1)

\* what cmd_bfs has printed when it returns after the loop
cmd_bfs_output(st) == [names |-> st.names, lines |-> <<st.names>>]

\* lines 87-102: the loop run until the queue is empty
RECURSIVE cmd_bfs_loop(_, _)
cmd_bfs_loop(G, st) ==
    IF queue_is_empty(st.scratch) THEN st ELSE cmd_bfs_loop(G, cmd_bfs_iteration(G, st))

\* cmd_bfs from entry to return: what it printed
cmd_bfs(G, start, scratch) ==
    IF cmd_bfs_early(G, start) THEN [names |-> <<>>, lines |-> <<<<>>>>]
    ELSE cmd_bfs_output(cmd_bfs_loop(G, cmd_bfs_begin(G, start, scratch)))

(***************************************************************************)
(* bfs (FINAL/bfs/bfs.c): breadth-first traversal over names, with its own *)
(* queue of malloc'd name copies, a visited table of rows of MAX_NAME_LEN  *)
(* bytes and graph_get_neighbors.  queue_create, strdup and the queue's    *)
(* growth succeed.  visited and neighbors have MAX_VERTICES rows and no    *)
(* statement tests the row index: the routine is Undefined once it stores a  *)
(* name in a row past the last one.                                        *)
(***************************************************************************)
\* lines 69-78: the exchange sort of neighbors[0..count-1] (here 1..count),
\* from the pair (i, j) on
RECURSIVE bfs_sort_neighbors(_, _, _)
bfs_sort_neighbors(neighbors, i, j) ==
    IF i >= Len(neighbors) THEN neighbors
    ELSE IF j > Len(neighbors) THEN bfs_sort_neighbors(neighbors, i + 1, i + 2)
    ELSE bfs_sort_neighbors(
             IF strcmp(neighbors[i], neighbors[j]) > 0
             THEN [neighbors EXCEPT ![i] = neighbors[j], ![j] = neighbors[i]]
             ELSE neighbors,
             i, j + 1)

\* lines 84-90: whether some row of visited reads as name.  The rows were
\* written by strcpy: a string of MAX_NAME_LEN bytes (only startName can be
\* one) has its terminator in the next row, where the next strcpy overwrites it
bfs_seen(visited, name) ==
    \E j \in 1..Len(visited) : strcmp(row_string(visited, j, <<>>), name) = 0

\* lines 37-52: the locals when the loop is first tested
bfs_begin(G, startName) ==
    [alg |-> "bfs", start |-> startName,
     q |-> queue_enqueue(queue_create(0), startName, TRUE).queue,
     visited |-> <<startName>>,
     names |-> <<startName>>]

\* lines 81-102: the loop over the sorted neighbours, from the i-th on; the
\* strcpy of line 95 stores in row visitedCount, which is past the table once
\* MAX_VERTICES names are in it
RECURSIVE bfs_neighbors(_, _, _)
bfs_neighbors(st, neighbors, i) ==
    IF IsUndefined(st) THEN st
    ELSE IF i > Len(neighbors) THEN st
    ELSE IF ~bfs_seen(st.visited, neighbors[i])
         THEN IF Len(st.visited) >= MAX_VERTICES THEN Undefined("bfs")
              ELSE bfs_neighbors(
                       [st EXCEPT !.visited = Append(@, neighbors[i]),
                                  !.q = queue_enqueue(@, neighbors[i], TRUE).queue,
                                  !.names = Append(@, neighbors[i])],
                       neighbors, i + 1)
         ELSE bfs_neighbors(st, neighbors, i + 1)

\* lines 56-103: one iteration of the loop (the queue is not empty); a count
\* of -1 from graph_get_neighbors runs neither loop, and one above
\* MAX_VERTICES means that graph_get_neighbors stored past neighbors
bfs_iteration(G, st) ==
    LET d == queue_dequeue(st.q)
        r == graph_get_neighbors(G, d.ret)
    IN  IF IsUndefined(st) THEN st
        ELSE IF r.count > MAX_VERTICES THEN Undefined("bfs")
        ELSE bfs_neighbors([st EXCEPT !.q = d.queue],
                           bfs_sort_neighbors(r.neighbors, 1, 2), 1)

\* what bfs has printed when it returns after the loop: a line per name and
\* the line putchar('\n') ends
bfs_output(st) ==
    IF IsUndefined(st) THEN Undetermined
    ELSE [names |-> st.names,
          lines |-> [i \in 1..(Len(st.names) + 1) |->
                        IF i <= Len(st.names) THEN <<st.names[i]>> ELSE <<>>]]

\* lines 56-103: the loop run until the queue is empty
RECURSIVE bfs_loop(_, _)
bfs_loop(G, st) ==
    IF IsUndefined(st) THEN st
    ELSE IF queue_is_empty(st.q) THEN st
    ELSE bfs_loop(G, bfs_iteration(G, st))

\* bfs from entry to return: what it printed
bfs(G, startName) ==
    IF ~graph_vertex_exists(G, startName) THEN [names |-> <<>>, lines |-> <<>>]
    ELSE bfs_output(bfs_loop(G, bfs_begin(G, startName)))

(***************************************************************************)
(* cmd_dfs (FINAL/dfs/dfs.c): iterative depth-first traversal with the     *)
(* caller's scratch stack.  build_index_map and index_of are the same as   *)
(* in bfs.c.  The malloc and calloc calls and the stack's growth succeed.  *)
(***************************************************************************)
\* lines 109-125: cmd_dfs returns after putchar('\n') alone
cmd_dfs_early(G, start) ==
    G.v_count = 0 \/ index_of(build_index_map(G), G.v_count, start) < 0

\* lines 113-129: the locals when the loop is first tested
cmd_dfs_begin(G, start, scratch) ==
    LET vec == build_index_map(G)
        V == G.v_count
        s_idx == index_of(vec, V, start)
    IN  [alg |-> "cmd_dfs", start |-> start, vec |-> vec, V |-> V,
         visited |-> [i \in 0..(V - 1) |-> FALSE],
         scratch |-> stack_push(stack_drain(scratch), vec[s_idx], TRUE).stack,
         names |-> <<>>]

\* the loop of lines 154-159 running upwards: buf[i], buf[i+1], .. are pushed
RECURSIVE cmd_dfs_push_ascending(_, _, _)
cmd_dfs_push_ascending(st, buf, i) ==
    IF i = 0 THEN st
    ELSE LET b == buf[Cardinality(DOMAIN buf) - i]
             v_idx == index_of(st.vec, st.V, b)
         IN  cmd_dfs_push_ascending(
                 IF ~st.visited[v_idx]
                 THEN [st EXCEPT !.scratch = stack_push(@, b, TRUE).stack]
                 ELSE st,
                 buf, i - 1)

\* lines 154-159: while (i--), buf[i] being the (i+1)-th adjacency node's dst
RECURSIVE cmd_dfs_push(_, _, _)
cmd_dfs_push(st, buf, i) ==
    IF i = 0 THEN st
    ELSE LET v_idx == index_of(st.vec, st.V, buf[i - 1])
         IN  cmd_dfs_push(
                 IF ~st.visited[v_idx]
                 THEN [st EXCEPT !.scratch = stack_push(@, buf[i - 1], TRUE).stack]
                 ELSE st,
                 buf, i - 1)

\* lines 132-161: one iteration of the loop (the stack is not empty)
cmd_dfs_iteration(G, st) ==
    LET p == stack_pop(st.scratch)
        u == p.ret
        u_idx == index_of(st.vec, st.V, u)
        st0 == [st EXCEPT !.scratch = p.stack]
        adj == VertexAt(G, u).adj
        deg == Len(adj)
    IN  IF st.visited[u_idx] THEN st0
        ELSE LET st1 == [st0 EXCEPT !.visited[u_idx] = TRUE, !.names = Append(@, u)]
             IN  IF deg = 0 THEN st1
                 ELSE cmd_dfs_push(st1, [i \in 0..(deg - 1) |-> adj[i + 1].dst], deg)

\* what cmd_dfs has printed when it returns after the loop: a line per name
\* and the line putchar('\n') ends
cmd_dfs_output(st) ==
    [names |-> st.names,
     lines |-> [i \in 1..(Len(st.names) + 1) |->
                   IF i <= Len(st.names) THEN <<st.names[i]>> ELSE <<>>]]

\* lines 132-161: the loop run until the stack is empty
RECURSIVE cmd_dfs_loop(_, _)
cmd_dfs_loop(G, st) ==
    IF stack_is_empty(st.scratch) THEN st ELSE cmd_dfs_loop(G, cmd_dfs_iteration(G, st))

\* cmd_dfs from entry to return: what it printed
cmd_dfs(G, start, scratch) ==
    IF cmd_dfs_early(G, start) THEN [names |-> <<>>, lines |-> <<<<>>>>]
    ELSE cmd_dfs_output(cmd_dfs_loop(G, cmd_dfs_begin(G, start, scratch)))

(***************************************************************************)
(* cmd_path (FINAL/path_check/path_check.c): iterative depth-first search  *)
(* for dst from src with the caller's scratch stack.  The malloc and       *)
(* calloc calls and the stack's growth succeed.  What it prints and        *)
(* returns is [ret |-> the value returned, digit |-> the digit printed].   *)
(***************************************************************************)
\* puts(found ? "1" : "0"); return found;
cmd_path_result(found) == [ret |-> found, digit |-> IF found THEN 1 ELSE 0]

\* lines 112-117: the scan of the vertex list for src, from the i-th vertex on
RECURSIVE cmd_path_same(_, _, _)
cmd_path_same(G, src, i) ==
    IF i > Len(G.v_head) THEN FALSE
    ELSE IF strcmp(G.v_head[i].name, src) = 0 THEN TRUE
    ELSE cmd_path_same(G, src, i + 1)

\* lines 112-130: cmd_path returns before its loop
cmd_path_early(G, src, dst) ==
    \/ strcmp(src, dst) = 0
    \/ G.v_count = 0
    \/ index_of(build_index_map(G), G.v_count, src) < 0
    \/ index_of(build_index_map(G), G.v_count, dst) < 0

\* lines 112-130: what it prints and returns then
cmd_path_early_result(G, src, dst) ==
    cmd_path_result(strcmp(src, dst) = 0 /\ cmd_path_same(G, src, 1))

\* lines 120-136: the locals when the loop is first tested
cmd_path_begin(G, src, dst, scratch) ==
    LET vec == build_index_map(G)
        V == G.v_count
        s_idx == index_of(vec, V, src)
    IN  [alg |-> "cmd_path", src |-> src, dst |-> dst, vec |-> vec, V |-> V,
         visited |-> [i \in 0..(V - 1) |-> FALSE],
         t_idx |-> index_of(vec, V, dst),
         scratch |-> stack_push(stack_drain(scratch), vec[s_idx], TRUE).stack,
         found |-> FALSE]

\* lines 149-152: while (i--), buf[i] being the (i+1)-th adjacency node's dst
RECURSIVE cmd_path_push(_, _, _)
cmd_path_push(st, buf, i) ==
    IF i = 0 THEN st
    ELSE LET v_idx == index_of(st.vec, st.V, buf[i - 1])
         IN  cmd_path_push(
                 IF ~st.visited[v_idx]
                 THEN [st EXCEPT !.scratch = stack_push(@, buf[i - 1], TRUE).stack]
                 ELSE st,
                 buf, i - 1)

\* cmd_path_iteration that reports dst only when it is the popped vertex's
\* first neighbour, and searches no further
cmd_path_iteration_one_hop(G, st) ==
    LET p == stack_pop(st.scratch)
        adj == VertexAt(G, p.ret).adj
    IN  [st EXCEPT !.scratch = stack_drain(p.stack),
                   !.found = Len(adj) > 0
                                /\ index_of(st.vec, st.V, adj[1].dst) = st.t_idx]

\* lines 137-154: one iteration of the loop (the stack is not empty and found
\* is false).  malloc(0) for a vertex without neighbours may return NULL and
\* leave the loop; that vertex is src and the stack is empty then, so the
\* loop ends in either case
cmd_path_iteration(G, st) ==
    LET p == stack_pop(st.scratch)
        u == p.ret
        u_idx == index_of(st.vec, st.V, u)
        st0 == [st EXCEPT !.scratch = p.stack]
        adj == VertexAt(G, u).adj
        deg == Len(adj)
    IN  IF st.visited[u_idx] THEN st0
        ELSE IF u_idx = st.t_idx THEN [st0 EXCEPT !.visited[u_idx] = TRUE, !.found = TRUE]
        ELSE cmd_path_push([st0 EXCEPT !.visited[u_idx] = TRUE],
                           [i \in 0..(deg - 1) |-> adj[i + 1].dst], deg)

\* lines 137-154: the loop run until the stack is empty or found is true
RECURSIVE cmd_path_loop(_, _)
cmd_path_loop(G, st) ==
    IF stack_is_empty(st.scratch) \/ st.found THEN st
    ELSE cmd_path_loop(G, cmd_path_iteration(G, st))

\* cmd_path from entry to return: what it printed and returned
cmd_path(G, src, dst, scratch) ==
    IF cmd_path_early(G, src, dst) THEN cmd_path_early_result(G, src, dst)
    ELSE cmd_path_result(cmd_path_loop(G, cmd_path_begin(G, src, dst, scratch)).found)

(***************************************************************************)
(* The graphs the algorithm specifications start from: every graph over    *)
(* the first n <= NumVertices names of NamePool with every choice of edges *)
(* and of weights in AlgWeights, each built from graph_create by           *)
(* graph_add_vertex and graph_add_edge calls.                              *)
(***************************************************************************)
AlgNames == {NamePool[i] : i \in 1..NumVertices}

\* a valid name of MAX_NAME_LEN bytes, every one of them 'A'
LongName == [i \in 1..MAX_NAME_LEN |-> 65]

\* "A", LongName, "B", "_", "a": the names of the graphs with a name of
\* MAX_NAME_LEN bytes
LongPool == << <<65>>, LongName, <<66>>, <<95>>, <<97>> >>

\* Residue stands for the bytes a read past the rows written by
\* graph_get_all_vertices finds in the rest of the array and in what follows
\* it on the stack, up to the first 0 byte, when they spell nothing the call
\* compares them with: any one or more bytes of 1..255, left there by
\* earlier calls.  The routine never initialises those bytes, so which they
\* are is not determined by the source.  As a byte value Residue is outside
\* 0..255: a string that holds it is equal to no name of the graph and to no
\* argument.  (No strcmp the routines make is decided by it: a row that has no
\* terminator holds MAX_NAME_LEN bytes, so it differs from every string of at
\* most MAX_NAME_LEN bytes before the residue is read.)
Residue == 256

\* the tails that make the row read at i equal to a string of queries: the
\* rows from i on hold MAX_NAME_LEN bytes each, the string starts with them
\* and goes on with the tail
QueryTails(G, queries) ==
    LET all == graph_get_all_vertices(G)
        n == Len(all)
        rows(i) == row_string(all, i, <<>>)
    IN  {SubSeq(p[1], Len(rows(p[2])) + 1, Len(p[1])) :
            p \in {x \in queries \X (1..n) :
                      /\ Len(rows(x[2])) = MAX_NAME_LEN * (n - x[2] + 1)
                      /\ Len(x[1]) > Len(rows(x[2]))
                      /\ SubSeq(x[1], 1, Len(rows(x[2]))) = rows(x[2])}}

\* what a read past the rows written by graph_get_all_vertices can find on
\* graph G by a call that compares the rows with the strings of queries.  The
\* rest of the array is read only when the last row written holds
\* MAX_NAME_LEN bytes and so has no terminator; it then holds nothing (a 0
\* byte first), or the bytes that complete one of the queries, or any other
\* bytes (Residue)
TailsFor(G, queries) ==
    IF G.v_head # <<>> /\ Len(G.v_head[Len(G.v_head)].name) >= MAX_NAME_LEN
    THEN {<<>>, <<Residue>>} \cup QueryTails(G, queries)
    ELSE {<<>>}

AlgWeights == {1, 3}

\* the pairs <<i, j>>, i < j <= n, of positions in NamePool, as a sequence
RECURSIVE PairSeq(_, _, _)
PairSeq(n, i, j) ==
    IF i >= n THEN <<>>
    ELSE IF j > n THEN PairSeq(n, i + 1, i + 2)
    ELSE <<<<i, j>>>> \o PairSeq(n, i, j + 1)

RECURSIVE add_vertices(_, _, _)
add_vertices(G, n, i) ==
    IF i > n THEN G
    ELSE add_vertices(add_vertex_result(G, NamePool[i], TRUE).g, n, i + 1)

\* from G, graph_add_edge for the k-th and later pairs, each either skipped
\* or added with a weight of AlgWeights; g is the graph so built
RECURSIVE GraphFrom(_, _, _)
GraphFrom(G, pairs, k) ==
    IF k > Len(pairs) THEN g = G
    ELSE \E w \in {0} \cup AlgWeights :
            GraphFrom(IF w = 0 THEN G
                      ELSE add_edge_result(G, NamePool[pairs[k][1]], NamePool[pairs[k][2]],
                                           w, "ok").g,
                      pairs, k + 1)

RECURSIVE add_pool_vertices(_, _, _, _)
add_pool_vertices(G, pool, n, i) ==
    IF i > n THEN G
    ELSE add_pool_vertices(add_vertex_result(G, pool[i], TRUE).g, pool, n, i + 1)

\* GraphFrom over the names of pool and the weights of weights
RECURSIVE PoolGraphFrom(_, _, _, _, _)
PoolGraphFrom(G, pool, weights, pairs, k) ==
    IF k > Len(pairs) THEN g = G
    ELSE \E w \in {0} \cup weights :
            PoolGraphFrom(IF w = 0 THEN G
                          ELSE add_edge_result(G, pool[pairs[k][1]], pool[pairs[k][2]],
                                               w, "ok").g,
                          pool, weights, pairs, k + 1)

\* graph_create, graph_add_vertex for the first n names of LongPool, then
\* graph_add_edge for any of the pairs
InitLong ==
    /\ \E n \in 0..NumLongVertices :
          PoolGraphFrom(add_pool_vertices(graph_create, LongPool, n, 1),
                        LongPool, AlgWeights, PairSeq(n, 1, 2), 1)
    /\ call = [op |-> "graph_create"]
    /\ ret = <<>>
    /\ pre = [v_count |-> g.v_count, e_count |-> g.e_count]
    /\ pc = "idle"
    /\ run = [alg |-> "none"]
    /\ out = <<>>

\* "B", "A", LongName, "_", "AB", "a", "A1": the names of the graphs the
\* traversals run on
TravPool == << <<66>>, <<65>>, LongName, <<95>>, <<65, 66>>, <<97>>, <<65, 49>> >>

TravNames == {TravPool[i] : i \in 1..NumTravVertices}

\* the weight of every edge of those graphs; the traversals read no weight
TravWeights == {MIN_WEIGHT}

\* graph_create, graph_add_vertex for the first n names of TravPool, then
\* graph_add_edge for any of the pairs
InitTrav ==
    /\ \E n \in 0..NumTravVertices :
          PoolGraphFrom(add_pool_vertices(graph_create, TravPool, n, 1),
                        TravPool, TravWeights, PairSeq(n, 1, 2), 1)
    /\ call = [op |-> "graph_create"]
    /\ ret = <<>>
    /\ pre = [v_count |-> g.v_count, e_count |-> g.e_count]
    /\ pc = "idle"
    /\ run = [alg |-> "none"]
    /\ out = <<>>

\* the scratch queues handed to cmd_bfs: queue_create(ScratchCap) as it is,
\* and after enqueue, enqueue, dequeue, enqueue of vertex pointers, which
\* leaves it full and wrapped
ScratchQueues ==
    LET q0 == queue_create(ScratchCap)
        q1 == queue_enqueue(q0, TravPool[1], TRUE).queue
        q2 == queue_enqueue(q1, TravPool[2], TRUE).queue
        q3 == queue_dequeue(q2).queue
    IN  {q0, queue_enqueue(q3, TravPool[1], TRUE).queue}

\* the scratch stacks handed to cmd_dfs and cmd_path: stack_create(ScratchCap)
\* as it is, and after one push of a vertex pointer
ScratchStacks ==
    LET s0 == stack_create(ScratchCap)
    IN  {s0, stack_push(s0, TravPool[1], TRUE).stack}

\* graph_create, graph_add_vertex for the first n names of NamePool, then
\* graph_add_edge for any of the pairs
InitAlg ==
    /\ \E n \in 0..NumVertices :
          GraphFrom(add_vertices(graph_create, n, 1), PairSeq(n, 1, 2), 1)
    /\ call = [op |-> "graph_create"]
    /\ ret = <<>>
    /\ pre = [v_count |-> g.v_count, e_count |-> g.e_count]
    /\ pc = "idle"
    /\ run = [alg |-> "none"]
    /\ out = <<>>

(***************************************************************************)
(* cmd_mst as actions: the entry up to the first loop test, one loop       *)
(* iteration, and the sort and print after the loop.                       *)
(***************************************************************************)
MstStart ==
    /\ pc = "idle"
    /\ call' = [op |-> "cmd_mst"]
    /\ ret' = <<>>
    /\ pre' = [v_count |-> g.v_count, e_count |-> g.e_count]
    /\ IF g.v_count = 0
       THEN /\ pc' = "done"
            /\ run' = [alg |-> "cmd_mst", n |-> 0]
            /\ out' = mst_output(<<>>, 0, <<>>, 0)
       ELSE /\ pc' = "mst_loop"
            /\ run' = mst_begin(g)
            /\ out' = out
    /\ UNCHANGED g

MstIter ==
    /\ pc = "mst_loop"
    /\ ~heap_is_empty(run.pq)
    /\ run' = mst_iteration(g, run)
    /\ UNCHANGED <<g, call, ret, pre, pc, out>>

MstFinish ==
    /\ pc = "mst_loop"
    /\ heap_is_empty(run.pq)
    /\ pc' = "done"
    /\ out' = mst_output(run.vertices, run.n, qsort(run.mst_edges), run.total_weight)
    /\ UNCHANGED <<g, call, ret, pre, run>>

NextMst == MstStart \/ MstIter \/ MstFinish

SpecMst == InitAlg /\ [][NextMst]_vars

(***************************************************************************)
(* primMST as actions: the entry up to the first loop test, one loop       *)
(* iteration, and the sort and print after the loop.                       *)
(***************************************************************************)
PrimStart ==
    /\ pc = "idle"
    /\ call' = [op |-> "primMST"]
    /\ ret' = <<>>
    /\ pre' = [v_count |-> g.v_count, e_count |-> g.e_count]
    /\ \E tail \in TailsFor(g, {}) :
          LET st == prim_begin(g, tail)
          IN  /\ run' = st
              /\ IF IsUndefined(st)
                 THEN pc' \in UndefinedPcs /\ out' = Undetermined
                 ELSE pc' = "prim_loop" /\ out' = out
    /\ UNCHANGED g

PrimIter ==
    /\ pc = "prim_loop"
    /\ ~heap_is_empty(run.minHeap)
    /\ run' = prim_iteration(g, run)
    /\ UNCHANGED <<g, call, ret, pre, pc, out>>

PrimFinish ==
    /\ pc = "prim_loop"
    /\ heap_is_empty(run.minHeap)
    /\ pc' = "done"
    /\ out' = prim_output(run)
    /\ UNCHANGED <<g, call, ret, pre, run>>

NextPrim == PrimStart \/ PrimIter \/ PrimFinish

SpecPrim == InitAlg /\ [][NextPrim]_vars

\* primMST on the graphs with a name of MAX_NAME_LEN bytes
SpecPrimLong == InitLong /\ [][NextPrim]_vars

(***************************************************************************)
(* cmd_shortest_path as actions: the entry up to the first loop test, one  *)
(* loop iteration, and the print after the loop.  start and end range over *)
(* the names of AlgNames, which a graph of fewer vertices does not all     *)
(* hold.                                                                   *)
(***************************************************************************)
SpStart(start, end) ==
    /\ pc = "idle"
    /\ call' = [op |-> "cmd_shortest_path"]
    /\ ret' = <<>>
    /\ pre' = [v_count |-> g.v_count, e_count |-> g.e_count]
    /\ IF sp_early_zero(g, start, end)
       THEN /\ pc' = "done"
            /\ run' = [alg |-> "cmd_shortest_path", start |-> start, end |-> end,
                       searched |-> FALSE]
            /\ out' = sp_print_zero
       ELSE /\ pc' = "sp_loop"
            /\ run' = sp_begin(g, start, end)
            /\ out' = out
    /\ UNCHANGED g

SpIter ==
    /\ pc = "sp_loop"
    /\ ~heap_is_empty(run.pq)
    /\ ~run.broke
    /\ run' = sp_iteration(g, run)
    /\ UNCHANGED <<g, call, ret, pre, pc, out>>

SpFinish ==
    /\ pc = "sp_loop"
    /\ heap_is_empty(run.pq) \/ run.broke
    /\ pc' = "done"
    /\ out' = sp_output(run)
    /\ UNCHANGED <<g, call, ret, pre, run>>

NextSP == (\E start, end \in AlgNames : SpStart(start, end)) \/ SpIter \/ SpFinish

SpecSP == InitAlg /\ [][NextSP]_vars

(***************************************************************************)
(* cmd_shortest_path on graphs whose weights lie further apart than those  *)
(* of AlgWeights, so that a detour over two light edges is shorter than    *)
(* one heavy edge by more than a light edge, and which may hold one more   *)
(* vertex, without edges, to serve as an end that is never extracted.      *)
(***************************************************************************)
WideWeights == {1, 5}

\* the names of these graphs
WideNames == {NamePool[i] : i \in 1..(NumVertices + 1)}

\* PoolGraphFrom followed, when extra is true, by graph_add_vertex for the
\* name after the first NumVertices names of the pool
RECURSIVE WideGraphFrom(_, _, _, _)
WideGraphFrom(G, pairs, k, extra) ==
    IF k > Len(pairs)
    THEN g = (IF extra THEN add_vertex_result(G, NamePool[NumVertices + 1], TRUE).g ELSE G)
    ELSE \E w \in {0} \cup WideWeights :
            WideGraphFrom(IF w = 0 THEN G
                          ELSE add_edge_result(G, NamePool[pairs[k][1]],
                                               NamePool[pairs[k][2]], w, "ok").g,
                          pairs, k + 1, extra)

InitWide ==
    /\ \E n \in 0..NumVertices, extra \in BOOLEAN :
          WideGraphFrom(add_pool_vertices(graph_create, NamePool, n, 1),
                        PairSeq(n, 1, 2), 1, extra)
    /\ call = [op |-> "graph_create"]
    /\ ret = <<>>
    /\ pre = [v_count |-> g.v_count, e_count |-> g.e_count]
    /\ pc = "idle"
    /\ run = [alg |-> "none"]
    /\ out = <<>>

NextSPWide == (\E start, end \in WideNames : SpStart(start, end)) \/ SpIter \/ SpFinish

SpecSPWide == InitWide /\ [][NextSPWide]_vars

(***************************************************************************)
(* shortestPath as actions: the entry up to the first loop test, one round *)
(* of the loop, and the print after the loop.                              *)
(***************************************************************************)
SPathStart(start, end) ==
    /\ pc = "idle"
    /\ call' = [op |-> "shortestPath"]
    /\ ret' = <<>>
    /\ pre' = [v_count |-> g.v_count, e_count |-> g.e_count]
    /\ \E tail \in TailsFor(g, {start, end}) :
       LET st == spath_begin(g, start, end, tail)
       IN  IF IsUndefined(st)
           THEN /\ pc' \in UndefinedPcs
                /\ run' = st
                /\ out' = Undetermined
           ELSE IF st.startIndex = -1 \/ st.endIndex = -1
           THEN /\ pc' = "done"
                /\ run' = [alg |-> "shortestPath", start |-> start, end |-> end,
                           searched |-> FALSE]
                /\ out' = sp_print_zero
           ELSE /\ pc' = "spath_loop"
                /\ run' = st
                /\ out' = out
    /\ UNCHANGED g

SPathRound ==
    /\ pc = "spath_loop"
    /\ run.count < run.n - 1
    /\ ~run.broke
    /\ run' = spath_round(g, run)
    /\ UNCHANGED <<g, call, ret, pre, pc, out>>

SPathFinish ==
    /\ pc = "spath_loop"
    /\ ~(run.count < run.n - 1) \/ run.broke
    /\ pc' = "done"
    /\ out' = spath_output(run)
    /\ UNCHANGED <<g, call, ret, pre, run>>

\* the names shortestPath is asked about: the pool's names, the name of
\* MAX_NAME_LEN bytes, and that name followed by one and by two more bytes,
\* which are no valid vertex names but are what row_string reads when those
\* bytes follow the last row
SPathQueries ==
    AlgNames \cup {LongName, LongName \o <<90>>, LongName \o <<97, 98>>}

NextSPath ==
    (\E start, end \in SPathQueries : SPathStart(start, end))
        \/ SPathRound \/ SPathFinish

SpecSPath == InitAlg /\ [][NextSPath]_vars

\* shortestPath on the graphs with a name of MAX_NAME_LEN bytes
SpecSPathLong == InitLong /\ [][NextSPath]_vars

(***************************************************************************)
(* The traversals as actions: the entry up to the first loop test (or the  *)
(* early return), one loop iteration, and the print after the loop.        *)
(***************************************************************************)
\* the output [names, lines] of a traversal that printed a newline only
OneEmptyLine == [names |-> <<>>, lines |-> <<<<>>>>]

\* the output of a traversal that printed nothing
NoOutput == [names |-> <<>>, lines |-> <<>>]

CmdBfsStart(start, scratch) ==
    /\ pc = "idle"
    /\ call' = [op |-> "cmd_bfs"]
    /\ ret' = <<>>
    /\ pre' = [v_count |-> g.v_count, e_count |-> g.e_count,
               scratch_size |-> scratch.size]
    /\ IF cmd_bfs_early(g, start)
       THEN /\ pc' = "done"
            /\ run' = [alg |-> "cmd_bfs", start |-> start, scratch |-> scratch]
            /\ out' = OneEmptyLine
       ELSE /\ pc' = "cmd_bfs_loop"
            /\ run' = cmd_bfs_begin(g, start, scratch)
            /\ out' = out
    /\ UNCHANGED g

CmdBfsIter ==
    /\ pc = "cmd_bfs_loop"
    /\ ~queue_is_empty(run.scratch)
    /\ run' = cmd_bfs_iteration(g, run)
    /\ UNCHANGED <<g, call, ret, pre, pc, out>>

CmdBfsFinish ==
    /\ pc = "cmd_bfs_loop"
    /\ queue_is_empty(run.scratch)
    /\ pc' = "done"
    /\ out' = cmd_bfs_output(run)
    /\ UNCHANGED <<g, call, ret, pre, run>>

BfsStart(startName) ==
    /\ pc = "idle"
    /\ call' = [op |-> "bfs"]
    /\ ret' = <<>>
    /\ pre' = [v_count |-> g.v_count, e_count |-> g.e_count]
    /\ IF ~graph_vertex_exists(g, startName)
       THEN /\ pc' = "done"
            /\ run' = [alg |-> "bfs", start |-> startName]
            /\ out' = NoOutput
       ELSE /\ pc' = "bfs_loop"
            /\ run' = bfs_begin(g, startName)
            /\ out' = out
    /\ UNCHANGED g

BfsIter ==
    /\ pc = "bfs_loop"
    /\ ~queue_is_empty(run.q)
    /\ LET st == bfs_iteration(g, run)
       IN  /\ run' = st
           /\ IF IsUndefined(st)
              THEN pc' \in UndefinedPcs /\ out' = Undetermined
              ELSE pc' = pc /\ out' = out
    /\ UNCHANGED <<g, call, ret, pre>>

BfsFinish ==
    /\ pc = "bfs_loop"
    /\ queue_is_empty(run.q)
    /\ pc' = "done"
    /\ out' = bfs_output(run)
    /\ UNCHANGED <<g, call, ret, pre, run>>

CmdDfsStart(start, scratch) ==
    /\ pc = "idle"
    /\ call' = [op |-> "cmd_dfs"]
    /\ ret' = <<>>
    /\ pre' = [v_count |-> g.v_count, e_count |-> g.e_count,
               scratch_size |-> scratch.size]
    /\ IF cmd_dfs_early(g, start)
       THEN /\ pc' = "done"
            /\ run' = [alg |-> "cmd_dfs", start |-> start, scratch |-> scratch]
            /\ out' = OneEmptyLine
       ELSE /\ pc' = "cmd_dfs_loop"
            /\ run' = cmd_dfs_begin(g, start, scratch)
            /\ out' = out
    /\ UNCHANGED g

CmdDfsIter ==
    /\ pc = "cmd_dfs_loop"
    /\ ~stack_is_empty(run.scratch)
    /\ run' = cmd_dfs_iteration(g, run)
    /\ UNCHANGED <<g, call, ret, pre, pc, out>>

CmdDfsFinish ==
    /\ pc = "cmd_dfs_loop"
    /\ stack_is_empty(run.scratch)
    /\ pc' = "done"
    /\ out' = cmd_dfs_output(run)
    /\ UNCHANGED <<g, call, ret, pre, run>>

CmdPathStart(src, dst, scratch) ==
    /\ pc = "idle"
    /\ call' = [op |-> "cmd_path"]
    /\ pre' = [v_count |-> g.v_count, e_count |-> g.e_count,
               scratch_size |-> scratch.size]
    /\ IF cmd_path_early(g, src, dst)
       THEN /\ pc' = "done"
            /\ run' = [alg |-> "cmd_path", src |-> src, dst |-> dst, scratch |-> scratch]
            /\ out' = cmd_path_early_result(g, src, dst)
            /\ ret' = <<out'.ret>>
       ELSE /\ pc' = "cmd_path_loop"
            /\ run' = cmd_path_begin(g, src, dst, scratch)
            /\ out' = out
            /\ ret' = <<>>
    /\ UNCHANGED g

CmdPathIter ==
    /\ pc = "cmd_path_loop"
    /\ ~stack_is_empty(run.scratch) /\ ~run.found
    /\ run' = cmd_path_iteration(g, run)
    /\ UNCHANGED <<g, call, ret, pre, pc, out>>

CmdPathFinish ==
    /\ pc = "cmd_path_loop"
    /\ ~(~stack_is_empty(run.scratch) /\ ~run.found)
    /\ pc' = "done"
    /\ out' = cmd_path_result(run.found)
    /\ ret' = <<run.found>>
    /\ UNCHANGED <<g, call, pre, run>>

\* the names given to the traversals: those of TravPool, one of them at
\* least not a vertex of the graph, and a name no graph holds
TravArgs == {TravPool[i] : i \in 1..(NumTravVertices + 1)}

NextTrav ==
    \/ \E start \in TravArgs, scratch \in ScratchQueues : CmdBfsStart(start, scratch)
    \/ CmdBfsIter
    \/ CmdBfsFinish
    \/ \E startName \in TravArgs : BfsStart(startName)
    \/ BfsIter
    \/ BfsFinish
    \/ \E start \in TravArgs, scratch \in ScratchStacks : CmdDfsStart(start, scratch)
    \/ CmdDfsIter
    \/ CmdDfsFinish
    \/ \E src, dst \in TravArgs, scratch \in ScratchStacks : CmdPathStart(src, dst, scratch)
    \/ CmdPathIter
    \/ CmdPathFinish

SpecTrav == InitTrav /\ [][NextTrav]_vars

(***************************************************************************)
(* The heap operations as actions.  run.h is the heap, created by          *)
(* heap_create(HeapCap); call holds the operation and its arguments, ret   *)
(* what it returned, pre the heap's size before the call.  The             *)
(* reallocations of grow succeed.                                          *)
(***************************************************************************)
\* the keys offered to heap_push and heap_decrease_key
HeapKeys == {-1, 0, 1, 2}

\* the payload pointers offered to heap_push
HeapItems == {1, 2}

InitHeap ==
    /\ g = graph_create
    /\ call = [op |-> "heap_create"]
    /\ ret = <<>>
    /\ pre = [size |-> 0]
    /\ pc = "idle"
    /\ run = [alg |-> "heap", h |-> heap_create(HeapCap)]
    /\ out = <<>>

\* heap_push of data_structures/heap/heap.c
HeapPush(item, key) ==
    /\ pc = "idle"
    /\ run.h.size < MaxHeapSize
    /\ call' = [op |-> "heap_push", item |-> item, key |-> key]
    /\ LET r == heap_push(run.h, item, key)
       IN  /\ run' = [run EXCEPT !.h = r.h]
           /\ ret' = [idx |-> r.idx]
    /\ pre' = [size |-> run.h.size]
    /\ UNCHANGED <<g, pc, out>>

\* heap_push of FINAL/heap/heap.c
HeapPushFinal(item, key) ==
    /\ pc = "idle"
    /\ run.h.size < MaxHeapSize
    /\ call' = [op |-> "heap_push", item |-> item, key |-> key]
    /\ LET r == heap_push_FINAL(run.h, item, key)
       IN  /\ run' = [run EXCEPT !.h = r.h]
           /\ ret' = [idx |-> r.idx]
    /\ pre' = [size |-> run.h.size]
    /\ UNCHANGED <<g, pc, out>>

HeapExtractMin ==
    /\ pc = "idle"
    /\ call' = [op |-> "heap_extract_min"]
    /\ LET r == heap_extract_min(run.h)
       IN  /\ run' = [run EXCEPT !.h = r.h]
           /\ ret' = IF r.null THEN [null |-> TRUE]
                     ELSE [null |-> FALSE, out |-> r.out, out_key |-> r.out_key]
    /\ pre' = [size |-> run.h.size]
    /\ UNCHANGED <<g, pc, out>>

HeapDecreaseKey(idx, new_key) ==
    /\ pc = "idle"
    /\ call' = [op |-> "heap_decrease_key", idx |-> idx, new_key |-> new_key]
    /\ LET r == heap_decrease_key(run.h, idx, new_key)
       IN  /\ run' = [run EXCEPT !.h = r.h]
           /\ ret' = [ret |-> r.ret]
    /\ pre' = [size |-> run.h.size]
    /\ UNCHANGED <<g, pc, out>>

NextHeap ==
    \/ \E item \in HeapItems, key \in HeapKeys : HeapPush(item, key)
    \/ HeapExtractMin
    \/ \E idx \in 0..MaxHeapSize, new_key \in HeapKeys : HeapDecreaseKey(idx, new_key)

SpecHeap == InitHeap /\ [][NextHeap]_vars

\* the heap of FINAL/heap/heap.c: its heap_push has no key test; its
\* heap_extract_min (192-204) and heap_decrease_key (216-222) are the text of
\* data_structures/heap/heap.c
NextHeapFinal ==
    \/ \E item \in HeapItems, key \in HeapKeys : HeapPushFinal(item, key)
    \/ HeapExtractMin
    \/ \E idx \in 0..MaxHeapSize, new_key \in HeapKeys : HeapDecreaseKey(idx, new_key)

SpecHeapFinal == InitHeap /\ [][NextHeapFinal]_vars

(***************************************************************************)
(* grow with either reallocation failing (data_structures/heap/heap.c      *)
(* 80-88; FINAL/heap/heap.c 145-153 is the same text).  A reallocation     *)
(* returns NULL and leaves its block alone ("null"), or returns the block  *)
(* it was given, enlarged ("same"), or copies the block to a new one and   *)
(* frees the old one ("moved").  grow stores the new pointers only when    *)
(* both calls succeeded, so after a failure h->key (h->data) still holds   *)
(* the old pointer: key_freed (data_freed) says that this block has been   *)
(* freed, and the array is then FreedArray.  A later call that reads or    *)
(* writes a slot of a freed array, or hands its block to realloc again, is *)
(* Undefined.  run = [alg, h, key_freed, data_freed].                      *)
(***************************************************************************)
ReallocOutcomes == {"null", "same", "moved"}

\* the largest heap of SpecHeapAlloc: heap_push is not called beyond it
MaxAllocHeapSize == 3

\* an array whose block has been given back to the allocator: it has no slot
\* that is the program's to read or write, and what the bytes hold is the
\* allocator's business
FreedArray == <<>>

\* the heap still points to a freed block
heap_dangling(hs) == hs.key_freed \/ hs.data_freed

\* grow on a heap whose blocks are live: [ok |-> result, h |-> heap after,
\* key_freed, data_freed]
grow_alloc(hs, k_new, d_new) ==
    IF k_new = "null" \/ d_new = "null"
    THEN [ok |-> FALSE,
          h |-> [hs.h EXCEPT !.key = IF k_new = "moved" THEN FreedArray ELSE @,
                             !.data = IF d_new = "moved" THEN FreedArray ELSE @],
          key_freed |-> k_new = "moved",
          data_freed |-> d_new = "moved"]
    ELSE [ok |-> TRUE, h |-> grow(hs.h), key_freed |-> FALSE, data_freed |-> FALSE]

\* heap_push with the outcomes of grow's two reallocations:
\* [h, key_freed, data_freed, idx |-> returned index, grew |-> grow was called,
\*  undefined |-> the call used a freed block].  A negative key returns
\* before the arrays are touched; any other key on a heap that points to a
\* freed block reaches realloc(h->key, ..) or the stores of lines 96-97
heap_push_alloc(hs, item, key, k_new, d_new) ==
    IF key < 0
    THEN [h |-> hs.h, key_freed |-> hs.key_freed, data_freed |-> hs.data_freed,
          idx |-> SIZE_MAX, grew |-> FALSE, undefined |-> FALSE]
    ELSE IF heap_dangling(hs)
    THEN [h |-> hs.h, key_freed |-> hs.key_freed, data_freed |-> hs.data_freed,
          idx |-> SIZE_MAX, grew |-> FALSE, undefined |-> TRUE]
    ELSE IF hs.h.size = hs.h.cap
    THEN LET gr == grow_alloc(hs, k_new, d_new)
         IN  IF ~gr.ok
             THEN [h |-> gr.h, key_freed |-> gr.key_freed, data_freed |-> gr.data_freed,
                   idx |-> SIZE_MAX, grew |-> TRUE, undefined |-> FALSE]
             ELSE LET r == push_entry(hs.h, item, key)
                  IN  [h |-> r.h, key_freed |-> FALSE, data_freed |-> FALSE,
                       idx |-> r.idx, grew |-> TRUE, undefined |-> FALSE]
    ELSE LET r == push_entry(hs.h, item, key)
         IN  [h |-> r.h, key_freed |-> FALSE, data_freed |-> FALSE,
              idx |-> r.idx, grew |-> FALSE, undefined |-> FALSE]

\* heap_extract_min on a heap that may point to a freed block: an empty heap
\* returns NULL before the arrays are read; otherwise lines 107-108 read
\* h->key[0] and h->data[0]
heap_extract_min_alloc(hs) ==
    IF heap_dangling(hs) /\ hs.h.size # 0
    THEN [undefined |-> TRUE]
    ELSE LET r == heap_extract_min(hs.h)
         IN  [undefined |-> FALSE, h |-> r.h,
              ret |-> IF r.null THEN [null |-> TRUE]
                      ELSE [null |-> FALSE, out |-> r.out, out_key |-> r.out_key]]

\* heap_decrease_key on a heap that may point to a freed block: an idx at or
\* past size returns before the arrays are read; otherwise line 120 reads
\* h->key[idx], and with the key array live a swap of sift_up (line 39)
\* stores in h->data
heap_decrease_key_alloc(hs, idx, new_key) ==
    LET live == [hs.h EXCEPT !.data = [i \in DOMAIN hs.h.key |-> 0]]
        r == heap_decrease_key(IF hs.data_freed THEN live ELSE hs.h, idx, new_key)
        swapped == r.ret /\ r.h.key # [hs.h.key EXCEPT ![idx] = new_key]
    IN  IF idx >= hs.h.size THEN [undefined |-> FALSE, h |-> hs.h, ret |-> FALSE]
        ELSE IF hs.key_freed THEN [undefined |-> TRUE]
        ELSE IF hs.data_freed /\ swapped THEN [undefined |-> TRUE]
        ELSE [undefined |-> FALSE,
              h |-> IF hs.data_freed THEN [r.h EXCEPT !.data = FreedArray] ELSE r.h,
              ret |-> r.ret]

InitHeapAlloc ==
    /\ g = graph_create
    /\ call = [op |-> "heap_create"]
    /\ ret = <<>>
    /\ pre = [size |-> 0]
    /\ pc = "idle"
    /\ run = [alg |-> "heap", h |-> heap_create(HeapCap),
              key_freed |-> FALSE, data_freed |-> FALSE]
    /\ out = <<>>

\* heap_push; call records the outcomes of the reallocations when grow ran
HeapPushAlloc(item, key, k_new, d_new) ==
    /\ pc = "idle"
    /\ run.h.size < MaxAllocHeapSize
    /\ \/ key >= 0 /\ ~heap_dangling(run) /\ run.h.size = run.h.cap
       \/ k_new = "same" /\ d_new = "same"
    /\ LET r == heap_push_alloc(run, item, key, k_new, d_new)
       IN  /\ call' = [op |-> "heap_push", item |-> item, key |-> key,
                       grew |-> r.grew, k_new |-> k_new, d_new |-> d_new]
           /\ IF r.undefined
              THEN /\ pc' \in UndefinedPcs
                   /\ run' = Undefined("heap")
                   /\ ret' = Undetermined
              ELSE /\ pc' = pc
                   /\ run' = [run EXCEPT !.h = r.h, !.key_freed = r.key_freed,
                                         !.data_freed = r.data_freed]
                   /\ ret' = [idx |-> r.idx]
    /\ pre' = [size |-> run.h.size]
    /\ UNCHANGED <<g, out>>

HeapExtractMinAlloc ==
    /\ pc = "idle"
    /\ call' = [op |-> "heap_extract_min"]
    /\ LET r == heap_extract_min_alloc(run)
       IN  IF r.undefined
           THEN /\ pc' \in UndefinedPcs
                /\ run' = Undefined("heap")
                /\ ret' = Undetermined
           ELSE /\ pc' = pc
                /\ run' = [run EXCEPT !.h = r.h]
                /\ ret' = r.ret
    /\ pre' = [size |-> run.h.size]
    /\ UNCHANGED <<g, out>>

HeapDecreaseKeyAlloc(idx, new_key) ==
    /\ pc = "idle"
    /\ call' = [op |-> "heap_decrease_key", idx |-> idx, new_key |-> new_key]
    /\ LET r == heap_decrease_key_alloc(run, idx, new_key)
       IN  IF r.undefined
           THEN /\ pc' \in UndefinedPcs
                /\ run' = Undefined("heap")
                /\ ret' = Undetermined
           ELSE /\ pc' = pc
                /\ run' = [run EXCEPT !.h = r.h]
                /\ ret' = [ret |-> r.ret]
    /\ pre' = [size |-> run.h.size]
    /\ UNCHANGED <<g, out>>

NextHeapAlloc ==
    \/ \E item \in HeapItems, key \in HeapKeys, k_new \in ReallocOutcomes,
          d_new \in ReallocOutcomes :
            HeapPushAlloc(item, key, k_new, d_new)
    \/ HeapExtractMinAlloc
    \/ \E idx \in 0..MaxAllocHeapSize, new_key \in HeapKeys :
          HeapDecreaseKeyAlloc(idx, new_key)

SpecHeapAlloc == InitHeapAlloc /\ [][NextHeapAlloc]_vars

(***************************************************************************)
(* What the properties below speak about.                                  *)
(***************************************************************************)
VertexNames(G) == {G.v_head[i].name : i \in 1..Len(G.v_head)}

\* the adjacency entries <<u, v, w>>: u's list holds a node for v with weight w
AdjEntries(G) ==
    UNION {{<<G.v_head[i].name, G.v_head[i].adj[j].dst, G.v_head[i].adj[j].weight>> :
              j \in 1..Len(G.v_head[i].adj)} : i \in 1..Len(G.v_head)}

RECURSIVE SumLen(_, _)
SumLen(v_head, i) ==
    IF i > Len(v_head) THEN 0 ELSE Len(v_head[i].adj) + SumLen(v_head, i + 1)

\* the number of adjacency nodes over all vertices
TotalAdjEntries(G) == SumLen(G.v_head, 1)

\* the unordered pairs of names joined by an adjacency entry
EdgePairs(G) == {{e[1], e[2]} : e \in AdjEntries(G)}

ValidWeights == {w \in AllWeights : w >= MIN_WEIGHT /\ w <= MAX_WEIGHT}

\* the position of a name in the vertex list of G
PosOf(G, name) == CHOOSE i \in 1..Len(G.v_head) : G.v_head[i].name = name

\* the undirected edges of G, each once, as <<i, j, w>> with positions i < j
RECURSIVE EdgesFrom(_, _, _)
EdgesFrom(G, i, k) ==
    IF i > Len(G.v_head) THEN <<>>
    ELSE IF k > Len(G.v_head[i].adj) THEN EdgesFrom(G, i + 1, 1)
    ELSE LET j == PosOf(G, G.v_head[i].adj[k].dst)
         IN  (IF i < j THEN <<<<i, j, G.v_head[i].adj[k].weight>>>> ELSE <<>>)
                 \o EdgesFrom(G, i, k + 1)

EdgeSeq(G) == EdgesFrom(G, 1, 1)

\* the positions reachable from the positions in S along edges of G
RECURSIVE ReachFrom(_, _)
ReachFrom(G, S) ==
    LET T == S \cup {PosOf(G, G.v_head[i].adj[k].dst) :
                        <<i, k>> \in {<<i, k>> \in S \X (1..Len(G.v_head)) :
                                          k <= Len(G.v_head[i].adj)}}
    IN  IF T = S THEN S ELSE ReachFrom(G, T)

Connected(G) ==
    Len(G.v_head) = 0 \/ ReachFrom(G, {1}) = 1..Len(G.v_head)

\* more than the total weight of any spanning tree
NoTree == (MAX_WEIGHT + 1) * NumVertices

\* the least total weight of `need` further edges taken from edges[k..] that
\* never close a cycle (comp maps each position to its component), NoTree when
\* there are none: with comp the identity and need = |V| - 1 this enumerates
\* every spanning tree
RECURSIVE MinTreeFrom(_, _, _, _)
MinTreeFrom(edges, k, comp, need) ==
    IF need <= 0 THEN 0
    ELSE IF Len(edges) - k + 1 < need THEN NoTree
    ELSE LET e == edges[k]
             skip == MinTreeFrom(edges, k + 1, comp, need)
         IN  IF comp[e[1]] = comp[e[2]] THEN skip
             ELSE LET merged == [x \in DOMAIN comp |->
                                    IF comp[x] = comp[e[2]] THEN comp[e[1]] ELSE comp[x]]
                      take == e[3] + MinTreeFrom(edges, k + 1, merged, need - 1)
                  IN  IF take < skip THEN take ELSE skip

\* the minimum total weight over all spanning trees of a connected graph G
MinSpanningWeight(G) ==
    MinTreeFrom(EdgeSeq(G), 1, [x \in 1..Len(G.v_head) |-> x], Len(G.v_head) - 1)

(***************************************************************************)
(* Graph-store properties, checked under Spec.                             *)
(***************************************************************************)
\* C1: adjacency is symmetric: u's list holds an entry for v with weight w
\* exactly when v's list holds an entry for u with weight w.
C1_Symmetry ==
    \A e \in AdjEntries(g) : <<e[2], e[1], e[3]>> \in AdjEntries(g)

\* a successful graph_add_edge has left at least two edges of different weights
C1_Witness ==
    /\ call.op = "graph_add_edge" /\ ret = <<TRUE>>
    /\ g.e_count >= 2
    /\ \E e1 \in AdjEntries(g), e2 \in AdjEntries(g) : e1[3] # e2[3]

\* C2: the vertex list is strictly ascending by name and v_count is its length.
C2_VerticesSorted ==
    /\ \A i \in 1..(Len(g.v_head) - 1) :
          strcmp(g.v_head[i].name, g.v_head[i + 1].name) < 0
    /\ g.v_count = Len(g.v_head)

\* a successful graph_add_vertex has filled the list with every offered name
C2_Witness ==
    /\ call.op = "graph_add_vertex" /\ ret = <<TRUE>>
    /\ Len(g.v_head) = NumNames

\* C3: every adjacency list is strictly ascending by neighbour name and never
\* holds the vertex itself.
C3_AdjSorted ==
    \A i \in 1..Len(g.v_head) :
        LET adj == g.v_head[i].adj
        IN  /\ \A j \in 1..(Len(adj) - 1) : strcmp(adj[j].dst, adj[j + 1].dst) < 0
            /\ \A j \in 1..Len(adj) : strcmp(adj[j].dst, g.v_head[i].name) # 0

\* a successful graph_add_edge has left a vertex with at least two neighbours
C3_Witness ==
    /\ call.op = "graph_add_edge" /\ ret = <<TRUE>>
    /\ \E i \in 1..Len(g.v_head) : Len(g.v_head[i].adj) >= 2

\* C4: e_count is the number of unordered vertex pairs joined by an edge, and
\* the adjacency entries over all vertices number exactly 2 * e_count.
C4_EdgeCount ==
    /\ g.e_count = Cardinality(EdgePairs(g))
    /\ TotalAdjEntries(g) = 2 * g.e_count

\* a graph_add_edge has overwritten the weight of one of at least two edges
C4_Witness ==
    /\ call.op = "graph_add_edge" /\ ret = <<TRUE>>
    /\ pre.e_count = g.e_count
    /\ g.e_count >= 2

\* C5: a graph_add_vertex or graph_add_edge call that returns false leaves the
\* graph (vertex list, adjacency lists, weights, v_count, e_count) as it was.
C5_FailureAtomic ==
    [][(call'.op \in {"graph_add_vertex", "graph_add_edge"} /\ ret' = <<FALSE>>)
         => g' = g]_vars

\* a graph_add_edge has returned false on a graph that holds edges
C5_Witness ==
    /\ call.op = "graph_add_edge" /\ ret = <<FALSE>>
    /\ g.e_count >= 1

\* C6: on an existing edge u-v, graph_add_edge(u, v, w) with a valid weight (and
\* both allocations succeeding) returns true, sets the weight of u->v and of
\* v->u to w, and leaves e_count, v_count, the vertex order, every degree and
\* neighbour order, and every other edge's weight unchanged.
C6_Overwrite ==
    \A u_name \in Names, v_name \in Names, w \in ValidWeights :
        graph_edge_exists(g, u_name, v_name) =>
            LET r == add_edge_result(g, u_name, v_name, w, "ok")
                G2 == r.g
            IN  /\ r.ret = TRUE
                /\ graph_get_edge_weight(G2, u_name, v_name) = w
                /\ graph_get_edge_weight(G2, v_name, u_name) = w
                /\ G2.e_count = g.e_count
                /\ G2.v_count = g.v_count
                /\ Len(G2.v_head) = Len(g.v_head)
                /\ \A i \in 1..Len(g.v_head) :
                      /\ G2.v_head[i].name = g.v_head[i].name
                      /\ Len(G2.v_head[i].adj) = Len(g.v_head[i].adj)
                      /\ \A j \in 1..Len(g.v_head[i].adj) :
                            /\ G2.v_head[i].adj[j].dst = g.v_head[i].adj[j].dst
                            /\ {g.v_head[i].name, g.v_head[i].adj[j].dst} # {u_name, v_name}
                                  => G2.v_head[i].adj[j].weight = g.v_head[i].adj[j].weight

\* a graph_add_edge has succeeded without adding an edge, and the graph holds
\* edges of both the smallest and the largest weight
C6_Witness ==
    /\ call.op = "graph_add_edge" /\ ret = <<TRUE>>
    /\ pre.e_count = g.e_count
    /\ \E e \in AdjEntries(g) : e[3] = MIN_WEIGHT
    /\ \E e \in AdjEntries(g) : e[3] = MAX_WEIGHT

\* C7: for a valid name N (the vertex allocation succeeding), graph_add_vertex(N)
\* returns true exactly when N is not yet a vertex; a second call right after it
\* returns false and changes nothing; v_count grows by one with each success, so
\* it is the number of distinct names added.
C7_AddVertexOnce ==
    /\ g.v_count = Cardinality(VertexNames(g))
    /\ \A N \in Names :
          LET r1 == add_vertex_result(g, N, TRUE)
              r2 == add_vertex_result(r1.g, N, TRUE)
          IN  /\ r1.ret = (N \notin VertexNames(g))
              /\ r1.g.v_count = g.v_count + (IF r1.ret THEN 1 ELSE 0)
              /\ VertexNames(r1.g) = VertexNames(g) \cup {N}
              /\ r2.ret = FALSE
              /\ r2.g = r1.g

\* a graph_add_vertex has returned false on a graph that already holds vertices
\* and edges
C7_Witness ==
    /\ call.op = "graph_add_vertex" /\ ret = <<FALSE>>
    /\ pre.v_count = g.v_count
    /\ g.v_count >= 2 /\ g.e_count >= 1

\* more than the total weight of any simple path
NoPath == (MAX_WEIGHT + 1) * (NumVertices + 1)

\* the least total weight of a simple path of G from position cur to position
\* dst that avoids the positions in visited, NoPath when there is none
RECURSIVE MinPathFrom(_, _, _, _)
MinPathFrom(G, cur, dst, visited) ==
    IF cur = dst THEN 0
    ELSE LET adj == G.v_head[cur].adj
             costs == {adj[k].weight
                          + MinPathFrom(G, PosOf(G, adj[k].dst), dst,
                                        visited \cup {PosOf(G, adj[k].dst)}) :
                       k \in {k \in 1..Len(adj) : PosOf(G, adj[k].dst) \notin visited}}
         IN  IF costs = {} THEN NoPath
             ELSE LET m == CHOOSE c \in costs : \A d \in costs : c <= d
                  IN  IF m >= NoPath THEN NoPath ELSE m

\* the minimum over all paths from src to dst of the sum of the edge weights
MinPathCost(G, src, dst) == MinPathFrom(G, src, dst, {src})

(***************************************************************************)
(* Minimum spanning tree, checked under SpecMst and SpecPrim.              *)
(***************************************************************************)
\* C8: on a connected graph the total edge weight cmd_mst prints is the minimum
\* total weight over all spanning trees of the graph.
C8_MstMinimal ==
    (pc = "done" /\ call.op = "cmd_mst" /\ Connected(g))
        => out.total = MinSpanningWeight(g)

\* C9: on a connected graph the total edge weight primMST prints is the minimum
\* total weight over all spanning trees of the graph.
C9_PrimMinimal ==
    (pc = "done" /\ call.op = "primMST" /\ Connected(g))
        => out.total = MinSpanningWeight(g)

\* primMST has finished on a connected graph of NumVertices vertices in which
\* some vertex joined the tree with a key below the weight of its edge to the
\* root: the entry pushed for it when the root was extracted was stale by then
C9_Witness ==
    /\ pc = "done" /\ call.op = "primMST" /\ Connected(g)
    /\ g.v_count = NumVertices
    /\ out.total = MinSpanningWeight(g)
    /\ \E v \in 1..(run.n - 1) :
          LET w0 == graph_get_edge_weight(g, run.names[0], run.names[v])
          IN  w0 > 0 /\ run.key[v] < w0

(***************************************************************************)
(* Shortest path, checked under SpecSP.                                    *)
(***************************************************************************)
\* C10: for existing vertices src and dst with dst reachable from src, the total
\* cost cmd_shortest_path prints is the minimum over all src-dst paths of the
\* sum of the edge weights.
C10_ShortestCost ==
    (/\ pc = "done" /\ call.op = "cmd_shortest_path"
     /\ run.alg = "cmd_shortest_path" /\ "n" \in DOMAIN run
     /\ PosOf(g, run.vertices[run.end_idx]) \in
            ReachFrom(g, {PosOf(g, run.vertices[run.start_idx])}))
        => /\ ~out.zero
           /\ out.cost = MinPathCost(g, PosOf(g, run.vertices[run.start_idx]),
                                        PosOf(g, run.vertices[run.end_idx]))

\* C11: for existing vertices start and end with end reachable from start, the
\* total cost shortestPath prints is the minimum over all start-end paths of the
\* sum of the edge weights, and it is 0 when start = end.
C11_SPathCost ==
    (/\ pc = "done" /\ call.op = "shortestPath"
     /\ run.start \in VertexNames(g) /\ run.end \in VertexNames(g)
     /\ PosOf(g, run.end) \in ReachFrom(g, {PosOf(g, run.start)}))
        => /\ ~out.zero
           /\ out.cost = MinPathCost(g, PosOf(g, run.start), PosOf(g, run.end))
           /\ (run.start = run.end => out.cost = 0)

\* shortestPath has printed a path of two edges whose cost is below the weight
\* of the direct edge between its ends
C11_Witness ==
    /\ pc = "done" /\ call.op = "shortestPath" /\ "n" \in DOMAIN run
    /\ ~out.zero /\ Len(out.path) = 3
    /\ graph_get_edge_weight(g, out.path[1], out.path[3]) > out.cost
    /\ out.cost = MinPathCost(g, PosOf(g, run.start), PosOf(g, run.end))

\* dist[v] <= dist[u] + w for both directions of every edge of G, a dist of INF
\* standing for +infinity
Relaxed(G, st) ==
    \A i \in 1..Len(G.v_head) : \A k \in 1..Len(G.v_head[i].adj) :
        LET u_idx == find_vertex_index(st.vertices, st.n, G.v_head[i].name)
            v_idx == find_vertex_index(st.vertices, st.n, G.v_head[i].adj[k].dst)
        IN  st.dist[u_idx] = INF
                \/ st.dist[v_idx] <= st.dist[u_idx] + G.v_head[i].adj[k].weight

\* cmd_shortest_path has left its main loop for existing src and dst
SpLoopDone ==
    /\ pc = "done" /\ call.op = "cmd_shortest_path" /\ "n" \in DOMAIN run

\* C12 as stated: when cmd_shortest_path finishes its main loop for existing src
\* and dst, dist[src] = 0 and dist[v] <= dist[u] + w for every edge (u, v, w).
C12_RelaxedAlways ==
    SpLoopDone => (run.dist[run.start_idx] = 0 /\ Relaxed(g, run))

\* C12 amended: when cmd_shortest_path finishes its main loop for existing src
\* and dst, dist[src] = 0; and dist[v] <= dist[u] + w for every edge (u, v, w)
\* when the loop ended because the heap was empty, not by the break at dst.
C12_RelaxedOnExhaustion ==
    SpLoopDone => /\ run.dist[run.start_idx] = 0
                  /\ (~run.broke => Relaxed(g, run))

\* the loop has ended on an empty heap after a vertex was given a distance
\* below the weight of its edge to src, dst being out of reach
C12_Witness ==
    /\ SpLoopDone /\ ~run.broke /\ run.n = NumVertices
    /\ run.dist[run.end_idx] = INF
    /\ \E v \in 0..(run.n - 1) :
          LET w0 == graph_get_edge_weight(g, run.vertices[run.start_idx], run.vertices[v])
          IN  w0 > 0 /\ run.dist[v] < w0

(***************************************************************************)
(* Traversals, checked under SpecTrav.                                     *)
(***************************************************************************)
\* the positions of S as a sequence, in ascending order of their names
RECURSIVE SortByName(_, _)
SortByName(G, S) ==
    IF S = {} THEN <<>>
    ELSE LET m == CHOOSE i \in S :
                     \A j \in S : strcmp(G.v_head[i].name, G.v_head[j].name) <= 0
         IN  <<m>> \o SortByName(G, S \ {m})

\* the positions of the neighbours of the vertex at position i
NeighboursOf(G, i) == {PosOf(G, G.v_head[i].adj[k].dst) : k \in 1..Len(G.v_head[i].adj)}

Range(s) == {s[i] : i \in 1..Len(s)}

\* the reference breadth-first order: order holds the positions discovered so
\* far, and its k-th is the next to have its undiscovered neighbours appended
RECURSIVE RefBfsFrom(_, _, _)
RefBfsFrom(G, order, k) ==
    IF k > Len(order) THEN order
    ELSE RefBfsFrom(G, order \o SortByName(G, NeighboursOf(G, order[k]) \ Range(order)),
                    k + 1)

\* the names of the reference breadth-first order from the vertex named start
RefBfs(G, start) ==
    LET order == RefBfsFrom(G, <<PosOf(G, start)>>, 1)
    IN  [i \in 1..Len(order) |-> G.v_head[order[i]].name]

\* the names of the vertices reachable from the vertex named start
ReachableNames(G, start) == {G.v_head[i].name : i \in ReachFrom(G, {PosOf(G, start)})}

\* C13: for an existing start vertex, the names cmd_bfs and bfs emit are the
\* vertices reachable from start, each exactly once and no other name, in the
\* reference breadth-first order (start first, then each dequeued vertex's
\* undiscovered neighbours in ascending name order).
C13_BfsOrder ==
    (pc = "done" /\ call.op \in {"cmd_bfs", "bfs"} /\ run.start \in VertexNames(g))
        => /\ out.names = RefBfs(g, run.start)
           /\ Range(out.names) = ReachableNames(g, run.start)
           /\ Cardinality(Range(out.names)) = Len(out.names)

\* the reference recursive depth-first search: RefDfsVisit appends the
\* position u to the pre-order and then visits, in ascending name order, each
\* neighbour that is not yet in it at the moment its turn comes
RECURSIVE RefDfsVisit(_, _, _)
RECURSIVE RefDfsEach(_, _, _, _)
RefDfsVisit(G, order, u) ==
    RefDfsEach(G, Append(order, u), SortByName(G, NeighboursOf(G, u)), 1)

RefDfsEach(G, order, nbrs, k) ==
    IF k > Len(nbrs) THEN order
    ELSE RefDfsEach(G,
                    IF nbrs[k] \in Range(order) THEN order
                    ELSE RefDfsVisit(G, order, nbrs[k]),
                    nbrs, k + 1)

\* the names of the reference pre-order from the vertex named start
RefDfs(G, start) ==
    LET order == RefDfsVisit(G, <<>>, PosOf(G, start))
    IN  [i \in 1..Len(order) |-> G.v_head[order[i]].name]

\* C14: for an existing start vertex, the names cmd_dfs emits are the pre-order
\* of the recursive depth-first search that takes each vertex's not yet visited
\* neighbours in ascending name order, and each reachable vertex is emitted
\* exactly once.
C14_DfsPreorder ==
    (pc = "done" /\ call.op = "cmd_dfs" /\ run.start \in VertexNames(g))
        => /\ out.names = RefDfs(g, run.start)
           /\ Range(out.names) = ReachableNames(g, run.start)
           /\ Cardinality(Range(out.names)) = Len(out.names)

\* cmd_dfs has emitted every vertex of a graph of NumTravVertices vertices, the
\* name of MAX_NAME_LEN bytes among them, in an order that is not the
\* breadth-first one
C14_Witness ==
    /\ pc = "done" /\ call.op = "cmd_dfs" /\ run.start \in VertexNames(g)
    /\ Len(out.names) = NumTravVertices
    /\ LongName \in Range(out.names)
    /\ out.names = RefDfs(g, run.start)
    /\ out.names # RefBfs(g, run.start)

\* C15: for an existing vertex u, the set of names cmd_bfs emits from u, the
\* set cmd_dfs emits from u and the set of names x for which cmd_path(u, x)
\* returns true are the same set, whatever the scratch queue or stack holds.
C15_SameComponent ==
    (pc = "done" /\ call.op \in {"cmd_bfs", "cmd_dfs"} /\ run.start \in VertexNames(g))
        => /\ \A q \in ScratchQueues :
                 Range(cmd_bfs(g, run.start, q).names) = Range(out.names)
           /\ \A s \in ScratchStacks :
                 /\ Range(cmd_dfs(g, run.start, s).names) = Range(out.names)
                 /\ {x \in TravArgs \cup VertexNames(g) : cmd_path(g, run.start, x, s).ret}
                        = Range(out.names)

\* cmd_bfs has emitted a component of three vertices, the name of MAX_NAME_LEN
\* bytes among them, of a graph of four vertices, and cmd_path from its start
\* is false for the fourth
C15_Witness ==
    /\ pc = "done" /\ call.op = "cmd_bfs" /\ run.start \in VertexNames(g)
    /\ g.v_count = 4
    /\ Cardinality(Range(out.names)) = 3
    /\ LongName \in Range(out.names)
    /\ \E x \in VertexNames(g) :
          ~cmd_path(g, run.start, x, stack_create(ScratchCap)).ret

\* dst is reachable from src along edges of G, both being vertices of G
Reachable(G, src, dst) ==
    /\ src \in VertexNames(G) /\ dst \in VertexNames(G)
    /\ PosOf(G, dst) \in ReachFrom(G, {PosOf(G, src)})

\* C16: cmd_path returns true (and prints 1) exactly when src and dst are
\* both vertices and dst is reachable from src; so cmd_path(x, x) is true
\* exactly when x is a vertex, and the result is false when a name is absent.
C16_PathIffReachable ==
    (pc = "done" /\ call.op = "cmd_path")
        => /\ out.ret = Reachable(g, run.src, run.dst)
           /\ out.digit = (IF out.ret THEN 1 ELSE 0)
           /\ ret = <<out.ret>>
           /\ (run.src = run.dst => out.ret = (run.src \in VertexNames(g)))
           /\ (run.src \notin VertexNames(g) \/ run.dst \notin VertexNames(g) => ~out.ret)

\* cmd_path has returned true for two different vertices that no edge joins,
\* the loop having marked at least three vertices visited
C16_Witness ==
    /\ pc = "done" /\ call.op = "cmd_path" /\ "found" \in DOMAIN run
    /\ out.ret
    /\ ~graph_edge_exists(g, run.src, run.dst)
    /\ Cardinality({i \in 0..(run.V - 1) : run.visited[i]}) >= 3

(***************************************************************************)
(* The unreachable sentinel, checked under SpecSPathLong (shortestPath)    *)
(* and SpecSP (cmd_shortest_path).                                         *)
(***************************************************************************)
\* C17: shortestPath and cmd_shortest_path print "0" exactly when
\* cmd_path(src, dst) is false, that is when a name is absent or dst is not
\* reachable from src, and print a path otherwise.
C17_ZeroIffNoPath ==
    (pc = "done" /\ call.op \in {"shortestPath", "cmd_shortest_path"})
        => /\ out.zero = ~cmd_path(g, run.start, run.end, stack_create(0)).ret
           /\ out.zero = ~Reachable(g, run.start, run.end)
           /\ (~out.zero => Len(out.path) >= 1)

(***************************************************************************)
(* The heap, checked under SpecHeap and SpecHeapFinal.                     *)
(***************************************************************************)
\* how many slots of h hold the entry (key, item)
EntryCount(h, key, item) ==
    Cardinality({i \in 0..(h.size - 1) : h.key[i] = key /\ h.data[i] = item})

\* how many slots of h hold the payload item
PayloadCount(h, item) == Cardinality({i \in 0..(h.size - 1) : h.data[i] = item})

\* C18: heap_extract_min on a non-empty heap removes and returns one entry, and
\* its key is at most every key that was in the heap and every key remaining,
\* so two extractions in a row return non-decreasing keys; on an empty heap it
\* returns NULL and leaves the heap unchanged.
C18_ExtractMin ==
    [][call'.op = "heap_extract_min" =>
          IF run.h.size = 0
          THEN ret'.null /\ run'.h = run.h
          ELSE /\ ~ret'.null
               /\ run'.h.size = run.h.size - 1
               /\ \A i \in 0..(run.h.size - 1) : ret'.out_key <= run.h.key[i]
               /\ \A i \in 0..(run'.h.size - 1) : ret'.out_key <= run'.h.key[i]
               /\ \A key \in HeapKeys, item \in HeapItems :
                     EntryCount(run'.h, key, item) =
                         EntryCount(run.h, key, item)
                             - (IF key = ret'.out_key /\ item = ret'.out THEN 1 ELSE 0)
               /\ (call.op = "heap_extract_min" /\ ~ret.null
                      => ret.out_key <= ret'.out_key)
      ]_vars

\* heap_extract_min has returned an entry that heap_decrease_key had lowered to
\* a negative key, from a heap that held MaxHeapSize entries, leaving three
\* entries of which the last is not the largest
C18_Witness ==
    /\ call.op = "heap_extract_min" /\ ~ret.null
    /\ pre.size = MaxHeapSize
    /\ ret.out_key < 0
    /\ run.h.size = pre.size - 1
    /\ \E i \in 0..(run.h.size - 2) : run.h.key[i] > run.h.key[run.h.size - 1]

\* C19: heap_decrease_key returns true only when idx < size and new_key is
\* below the key at slot idx; then one entry that was at idx carries new_key
\* and every payload occurs as often as before.  Otherwise it returns false
\* and the heap is unchanged.
C19_DecreaseKey ==
    [][call'.op = "heap_decrease_key" =>
          IF call'.idx < run.h.size /\ call'.new_key < run.h.key[call'.idx]
          THEN /\ ret'.ret
               /\ run'.h.size = run.h.size
               /\ \A item \in HeapItems :
                     PayloadCount(run'.h, item) = PayloadCount(run.h, item)
               /\ \A key \in HeapKeys, item \in HeapItems :
                     EntryCount(run'.h, key, item) =
                         EntryCount(run.h, key, item)
                             + (IF key = call'.new_key /\ item = run.h.data[call'.idx]
                                THEN 1 ELSE 0)
                             - (IF key = run.h.key[call'.idx] /\ item = run.h.data[call'.idx]
                                THEN 1 ELSE 0)
          ELSE ~ret'.ret /\ run'.h = run.h
      ]_vars

\* heap_decrease_key has returned true for the last slot of a heap of
\* MaxHeapSize entries and the lowered entry has risen to the root
C19_Witness ==
    /\ call.op = "heap_decrease_key" /\ ret.ret
    /\ run.h.size = MaxHeapSize
    /\ call.idx = run.h.size - 1
    /\ run.h.key[0] = call.new_key
    /\ \A i \in 1..(run.h.size - 1) : run.h.key[i] > call.new_key

\* C20: heap_push with a negative key returns SIZE_MAX and leaves the heap
\* unchanged, whatever the heap holds.
C20_NegativeKeyRejected ==
    [][call'.op = "heap_push" /\ call'.key < 0
          => ret'.idx = SIZE_MAX /\ run'.h = run.h]_vars

\* C21: when heap_push has to grow a full heap and a reallocation fails, it
\* returns SIZE_MAX and the heap keeps its size, cap and entries, in key and
\* data arrays that are still allocated.
C21_GrowFailureIntact ==
    [][(/\ pc = "idle" /\ ~heap_dangling(run)
        /\ call'.op = "heap_push" /\ call'.grew
        /\ (call'.k_new = "null" \/ call'.d_new = "null"))
          => /\ ret'.idx = SIZE_MAX
             /\ run'.h = run.h
             /\ ~run'.key_freed /\ ~run'.data_freed]_vars

(***************************************************************************)
(* The caller's workspace, checked under SpecTrav.                         *)
(***************************************************************************)
\* the routines that are handed a scratch stack or queue
ScratchRoutines == {"cmd_bfs", "cmd_dfs", "cmd_path"}

\* C22: cmd_dfs, cmd_path and cmd_bfs return with the scratch stack or queue
\* empty.
C22_ScratchEmptyOnReturn ==
    (pc = "done" /\ run.alg \in ScratchRoutines) => run.scratch.size = 0

\* C23: what cmd_dfs, cmd_path and cmd_bfs print and return does not depend
\* on the entries the scratch stack or queue held on entry: a call that has
\* returned, whatever workspace it was given, has printed and returned what
\* the same call does with the empty workspace of stack_create or
\* queue_create.
C23_ResidueIgnored ==
    pc = "done" =>
        /\ run.alg = "cmd_dfs"
              => out = cmd_dfs(g, run.start, stack_create(ScratchCap))
        /\ run.alg = "cmd_bfs"
              => out = cmd_bfs(g, run.start, queue_create(ScratchCap))
        /\ run.alg = "cmd_path"
              => /\ out = cmd_path(g, run.src, run.dst, stack_create(ScratchCap))
                 /\ ret = <<out.ret>>

\* cmd_dfs, handed a stack that held an entry, has dropped it, printed three
\* vertices or more and returned
C23_Witness ==
    /\ pc = "done" /\ run.alg = "cmd_dfs"
    /\ pre.scratch_size > 0 /\ run.scratch.size = 0
    /\ Len(out.names) >= 3

(***************************************************************************)
(* primMST on disconnected graphs, checked under SpecPrim.                 *)
(***************************************************************************)
\* the names of the component of the first vertex of the sorted list
FirstComponent(G) == {G.v_head[i].name : i \in ReachFrom(G, {1})}


\* C25: on a disconnected graph every edge primMST records joins two vertices
\* of the component of the lexicographically smallest vertex, so the other
\* components add no edge and no weight.
C25_FirstComponentOnly ==
    (pc = "done" /\ call.op = "primMST" /\ ~Connected(g))
        => /\ \A i \in 1..Len(out.E) :
                 out.E[i][1] \in FirstComponent(g) /\ out.E[i][2] \in FirstComponent(g)
           /\ Len(out.E) = Cardinality(FirstComponent(g)) - 1

(***************************************************************************)
(* The selection step of shortestPath, checked under SpecSPath.            *)
(***************************************************************************)
\* the index that a round of shortestPath's loop settles
SettledBy(before, after) ==
    CHOOSE u \in 0..(before.n - 1) : ~before.visited[u] /\ after.visited[u]

\* C26: the vertex a round of shortestPath's loop selects has the minimum
\* tentative distance among the unsettled vertices and, among those that share
\* it, the lexicographically smallest name (stated for the vertices reached
\* so far, whose distance is below INF).
C26_TieBreakSmallestName ==
    [][(pc = "spath_loop" /\ run'.count = run.count + 1)
          => LET u == SettledBy(run, run')
             IN  \A v \in 0..(run.n - 1) :
                    (~run.visited[v] /\ run.dist[v] < INF_FINAL)
                        => \/ run.dist[u] < run.dist[v]
                           \/ /\ run.dist[u] = run.dist[v]
                              /\ strcmp(run.names[u], run.names[v]) <= 0
      ]_vars

(***************************************************************************)
(* What the traversals print, checked under SpecTrav.                      *)
(***************************************************************************)
\* C27: when the start name is not a vertex of the graph, bfs and cmd_dfs
\* print no vertex name and exactly one empty line.
C27_AbsentStartOneEmptyLine ==
    (/\ pc = "done" /\ call.op \in {"bfs", "cmd_dfs"}
     /\ run.start \notin VertexNames(g))
        => out.names = <<>> /\ out.lines = << <<>> >>

\* C28: for an existing start vertex cmd_dfs writes one line and nothing else:
\* the visited names in order, single spaces between them and none after the
\* last, then one newline.
C28_DfsSingleLine ==
    (pc = "done" /\ call.op = "cmd_dfs" /\ run.start \in VertexNames(g))
        => out.lines = <<out.names>>

(***************************************************************************)
(* The slot heap_push returns, checked under SpecHeap.                     *)
(***************************************************************************)
\* C29: when heap_push returns an index other than SIZE_MAX, the slot of that
\* index holds the pushed key and payload when the call returns.
C29_PushIndexHoldsEntry ==
    [][(call'.op = "heap_push" /\ ret'.idx # SIZE_MAX)
          => /\ ret'.idx < run'.h.size
             /\ run'.h.key[ret'.idx] = call'.key
             /\ run'.h.data[ret'.idx] = call'.item]_vars

(***************************************************************************)
(* The heap_indices side table of cmd_mst and cmd_shortest_path, checked   *)
(* under SpecMst.                                                          *)
(***************************************************************************)
\* C30: whenever the main loop of cmd_mst or cmd_shortest_path is tested,
\* every vertex v with heap_indices[v] other than SIZE_MAX has heap_indices[v]
\* below the heap's size and is the payload of that slot.
C30_HeapIndicesValid ==
    pc \in {"mst_loop", "sp_loop"}
        => \A v \in 0..(run.n - 1) :
              run.heap_indices[v] # SIZE_MAX
                  => /\ run.heap_indices[v] < run.pq.size
                     /\ run.pq.data[run.heap_indices[v]] = v

(***************************************************************************)
(* Settled vertices of cmd_shortest_path, checked under SpecSPWide.        *)
(***************************************************************************)
\* v has been extracted from the heap and is not in it: it has a distance, so
\* it was pushed, and heap_indices[v] is SIZE_MAX, which line 151 stores at
\* the extraction and only a push overwrites
SpSettled(st, v) == st.dist[v] # INF /\ st.heap_indices[v] = SIZE_MAX

\* C31: in cmd_shortest_path a vertex that has been extracted from the heap
\* keeps its dist and is not pushed again.
C31_SettledIsFinal ==
    [][(pc = "sp_loop" /\ pc' = "sp_loop")
          => \A v \in 0..(run.n - 1) :
                SpSettled(run, v)
                    => /\ run'.dist[v] = run.dist[v]
                       /\ run'.heap_indices[v] = SIZE_MAX]_vars


(***************************************************************************)
(* cmd_shortest_path on the sub-graphs of one graph of NumSixVertices      *)
(* vertices: every vertex is present and each edge of SixEdges is present  *)
(* or absent.  Checked under SpecSPSix.                                    *)
(***************************************************************************)
NumSixVertices == 6

SixNames == {NamePool[i] : i \in 1..NumSixVertices}

\* edges as <<position in NamePool, position in NamePool, weight>>:
\* A-AB 1, A-a 1, A1-_ 1, A1-a 3, AB-B 3, AB-_ 3, AB-a 1, _-a 1
SixEdges ==
    << <<2, 3, 1>>, <<2, 5, 1>>, <<6, 4, 1>>, <<6, 5, 3>>,
       <<3, 1, 3>>, <<3, 4, 3>>, <<3, 5, 1>>, <<4, 5, 1>> >>

\* graph_add_edge for each edge of a subset of edges[k..], in sequence order
RECURSIVE SubGraphFrom(_, _, _)
SubGraphFrom(G, edges, k) ==
    IF k > Len(edges)
    THEN g = G
    ELSE \E present \in BOOLEAN :
            SubGraphFrom(IF present
                         THEN add_edge_result(G, NamePool[edges[k][1]],
                                              NamePool[edges[k][2]], edges[k][3], "ok").g
                         ELSE G,
                         edges, k + 1)

InitSix ==
    /\ SubGraphFrom(add_pool_vertices(graph_create, NamePool, NumSixVertices, 1),
                    SixEdges, 1)
    /\ call = [op |-> "graph_create"]
    /\ ret = <<>>
    /\ pre = [v_count |-> g.v_count, e_count |-> g.e_count]
    /\ pc = "idle"
    /\ run = [alg |-> "none"]
    /\ out = <<>>

NextSPSix == (\E start, end \in SixNames : SpStart(start, end)) \/ SpIter \/ SpFinish

SpecSPSix == InitSix /\ [][NextSPSix]_vars

\* the sum of the weights graph_get_edge_weight gives for the consecutive pairs
\* of names[i..]
RECURSIVE PathWeightFrom(_, _, _)
PathWeightFrom(G, names, i) ==
    IF i >= Len(names) THEN 0
    ELSE graph_get_edge_weight(G, names[i], names[i + 1])
             + PathWeightFrom(G, names, i + 1)

\* C32: a path printed by cmd_shortest_path starts with src, ends with dst,
\* repeats no vertex, joins consecutive vertices by graph edges, and its printed
\* total cost is the sum of the weights of those edges.
C32_PrintedPathWellFormed ==
    (/\ pc = "done" /\ call.op = "cmd_shortest_path"
     /\ run.alg = "cmd_shortest_path" /\ ~out.zero)
        => /\ Len(out.path) >= 1
           /\ out.path[1] = run.start
           /\ out.path[Len(out.path)] = run.end
           /\ \A i, j \in 1..Len(out.path) : i # j => out.path[i] # out.path[j]
           /\ \A i \in 1..(Len(out.path) - 1) :
                 graph_edge_exists(g, out.path[i], out.path[i + 1])
           /\ out.cost = PathWeightFrom(g, out.path, 1)


(***************************************************************************)
(* The edges cmd_mst records, checked under SpecMst.                       *)
(***************************************************************************)
\* the names joined to a name of S by a chain of edges of E (a sequence of
\* <<u, v, weight>>), S included
RECURSIVE EdgeClosure(_, _)
EdgeClosure(E, S) ==
    LET T == S \cup {E[i][2] : i \in {k \in 1..Len(E) : E[k][1] \in S}}
               \cup {E[i][1] : i \in {k \in 1..Len(E) : E[k][2] \in S}}
    IN  IF T = S THEN S ELSE EdgeClosure(E, T)

RECURSIVE EdgeWeightSum(_, _)
EdgeWeightSum(E, i) == IF i > Len(E) THEN 0 ELSE E[i][3] + EdgeWeightSum(E, i + 1)

\* C33: on a connected graph of V >= 1 vertices cmd_mst records V-1 edges, each
\* an edge of the graph with its smaller endpoint first and its actual weight;
\* the recorded edges join all V vertices, so with V-1 of them they are pairwise
\* distinct and have no cycle; the printed total is the sum of their weights.
C33_RecordedEdgesSpanningTree ==
    (pc = "done" /\ call.op = "cmd_mst" /\ g.v_count >= 1 /\ Connected(g))
        => /\ Len(out.E) = g.v_count - 1
           /\ \A i \in 1..Len(out.E) :
                 /\ strcmp(out.E[i][1], out.E[i][2]) < 0
                 /\ graph_edge_exists(g, out.E[i][1], out.E[i][2])
                 /\ out.E[i][3] = graph_get_edge_weight(g, out.E[i][1], out.E[i][2])
           /\ \A i, j \in 1..Len(out.E) :
                 i # j => <<out.E[i][1], out.E[i][2]>> # <<out.E[j][1], out.E[j][2]>>
           /\ EdgeClosure(out.E, {g.v_head[1].name}) = VertexNames(g)
           /\ out.total = EdgeWeightSum(out.E, 1)

\* cmd_mst has returned on a connected graph of at least three vertices with a
\* tree that is not a minimum one (a key was lowered through a stale slot)
C33_Witness ==
    /\ pc = "done" /\ call.op = "cmd_mst" /\ Connected(g)
    /\ g.v_count >= 3
    /\ Len(out.E) = g.v_count - 1
    /\ out.total # MinSpanningWeight(g)


\* for every slot i > 0 below size, key[(i-1)/2] <= key[i]
MinHeapProperty(h) ==
    \A i \in 1..(h.size - 1) : h.key[(i - 1) \div 2] <= h.key[i]

\* by how much the number of slots holding (key, item) differs between h1 and h0
EntryDelta(h0, h1, key, item) == EntryCount(h1, key, item) - EntryCount(h0, key, item)

\* C34: after every heap_push, heap_extract_min and heap_decrease_key the
\* arrays satisfy the min-heap property, and the multiset of (key, payload)
\* entries has changed only by the entry pushed, the entry extracted or the
\* one key lowered.
C34_HeapPropertyAndEntries ==
    [][/\ MinHeapProperty(run'.h)
       /\ call'.op = "heap_push" =>
             \A key \in HeapKeys, item \in HeapItems :
                EntryDelta(run.h, run'.h, key, item) =
                    IF ret'.idx # SIZE_MAX /\ key = call'.key /\ item = call'.item
                    THEN 1 ELSE 0
       /\ call'.op = "heap_extract_min" =>
             \A key \in HeapKeys, item \in HeapItems :
                EntryDelta(run.h, run'.h, key, item) =
                    IF ~ret'.null /\ key = ret'.out_key /\ item = ret'.out
                    THEN -1 ELSE 0
       /\ call'.op = "heap_decrease_key" =>
             IF ret'.ret
             THEN \E old \in HeapKeys, it \in HeapItems :
                     /\ call'.new_key < old
                     /\ EntryCount(run.h, old, it) > 0
                     /\ \A key \in HeapKeys, item \in HeapItems :
                           EntryDelta(run.h, run'.h, key, item) =
                               (IF key = call'.new_key /\ item = it THEN 1 ELSE 0)
                                   - (IF key = old /\ item = it THEN 1 ELSE 0)
             ELSE run'.h = run.h
      ]_vars

\* heap_push has grown the heap beyond its initial capacity to MaxHeapSize
\* entries and the pushed entry, strictly the least, has risen to the root
C34_Witness ==
    /\ call.op = "heap_push" /\ ret.idx # SIZE_MAX
    /\ run.h.size = MaxHeapSize /\ run.h.cap > HeapCap
    /\ ret.idx = run.h.size - 1
    /\ run.h.key[0] = call.key /\ run.h.data[0] = call.item
    /\ \A i \in 1..(run.h.size - 1) : run.h.key[i] > call.key


(***************************************************************************)
(* The queue operations as actions.  run.queue is the queue, created by    *)
(* queue_create(QueueCap); run.fifo lists the elements enqueued and not    *)
(* yet dequeued, oldest first; run.enq and run.deq count the enqueues that *)
(* returned true and the dequeues that returned an element;                *)
(* run.grown_wrapped records that queue_grow ran with front > 0.           *)
(***************************************************************************)
\* the capacity the queue is created with
QueueCap == 2

\* how many elements are enqueued at most in one behaviour
MaxEnqueues == 6

\* the element pointers offered to queue_enqueue
QueueItems == {<<1>>, <<2>>}

InitQueue ==
    /\ g = graph_create
    /\ call = [op |-> "queue_create"]
    /\ ret = <<>>
    /\ pre = [size |-> 0]
    /\ pc = "idle"
    /\ run = [alg |-> "queue", queue |-> queue_create(QueueCap), fifo |-> <<>>,
              enq |-> 0, deq |-> 0, grown_wrapped |-> FALSE]
    /\ out = <<>>

QueueEnqueue(data, grow_ok) ==
    /\ run.enq < MaxEnqueues
    /\ call' = [op |-> "queue_enqueue", data |-> data]
    /\ LET r == queue_enqueue(run.queue, data, grow_ok)
       IN  /\ ret' = [ret |-> r.ret]
           /\ run' = [run EXCEPT
                         !.queue = r.queue,
                         !.fifo = IF r.ret THEN Append(@, data) ELSE @,
                         !.enq = IF r.ret THEN @ + 1 ELSE @,
                         !.grown_wrapped =
                             @ \/ (r.ret /\ run.queue.size >= run.queue.capacity
                                         /\ run.queue.front > 0)]
    /\ pre' = [size |-> queue_size(run.queue)]
    /\ UNCHANGED <<g, pc, out>>

QueueDequeue ==
    /\ call' = [op |-> "queue_dequeue"]
    /\ LET r == queue_dequeue(run.queue)
       IN  /\ ret' = [ret |-> r.ret]
           /\ run' = [run EXCEPT
                         !.queue = r.queue,
                         !.fifo = IF r.ret # NoItem THEN Tail(@) ELSE @,
                         !.deq = IF r.ret # NoItem THEN @ + 1 ELSE @]
    /\ pre' = [size |-> queue_size(run.queue)]
    /\ UNCHANGED <<g, pc, out>>

NextQueue ==
    \/ \E data \in QueueItems, grow_ok \in BOOLEAN : QueueEnqueue(data, grow_ok)
    \/ QueueDequeue

SpecQueue == InitQueue /\ [][NextQueue]_vars

\* C35: for any interleaving of queue_enqueue and queue_dequeue, a grow of the
\* wrapped buffer included, queue_dequeue returns the elements in the order
\* they were enqueued, queue_size is the number of enqueues minus the number
\* of successful dequeues, and queue_dequeue on an empty queue returns NULL
\* and leaves the queue unchanged.
C35_QueueFifo ==
    [][/\ queue_size(run'.queue) = run'.enq - run'.deq
       /\ call'.op = "queue_dequeue" =>
             IF run.enq = run.deq
             THEN ret'.ret = NoItem /\ run'.queue = run.queue
             ELSE ret'.ret = Head(run.fifo)
      ]_vars

\* queue_dequeue has returned the element enqueued last, after queue_grow
\* unwrapped a buffer whose front was not slot 0 and after the queue had held
\* more than QueueCap elements
C35_Witness ==
    /\ call.op = "queue_dequeue" /\ ret.ret # NoItem
    /\ run.grown_wrapped
    /\ run.queue.capacity > QueueCap
    /\ run.deq > QueueCap
    /\ run.enq = run.deq


(***************************************************************************)
(* Termination of cmd_bfs, cmd_dfs, cmd_path, cmd_mst and                  *)
(* cmd_shortest_path.  Each routine is sequential code run by one thread   *)
(* that is not suspended for good, so a step that is possible is           *)
(* eventually taken: weak fairness of the next-step relation.  In a loop   *)
(* state either the iteration or the return is possible, and a natural     *)
(* number that every iteration lowers bounds the number of iterations.     *)
(***************************************************************************)
InitTerm == InitAlg

NextTerm ==
    \/ \E start \in TravArgs, scratch \in ScratchQueues : CmdBfsStart(start, scratch)
    \/ CmdBfsIter
    \/ CmdBfsFinish
    \/ \E start \in TravArgs, scratch \in ScratchStacks : CmdDfsStart(start, scratch)
    \/ CmdDfsIter
    \/ CmdDfsFinish
    \/ \E src, dst \in TravArgs, scratch \in ScratchStacks : CmdPathStart(src, dst, scratch)
    \/ CmdPathIter
    \/ CmdPathFinish
    \/ MstStart
    \/ MstIter
    \/ MstFinish
    \/ \E start, end \in AlgNames : SpStart(start, end)
    \/ SpIter
    \/ SpFinish

SpecTerm == InitTerm /\ [][NextTerm]_vars /\ WF_vars(NextTerm)

LoopPcs == {"cmd_bfs_loop", "cmd_dfs_loop", "cmd_path_loop", "mst_loop", "sp_loop"}

\* how many indices of the boolean array flags hold FALSE
CountFalse(flags) == Cardinality({i \in DOMAIN flags : ~flags[i]})

RECURSIVE DistSum(_, _, _)
DistSum(dist, n, i) ==
    IF i >= n THEN 0
    ELSE (IF dist[i] = INF THEN MAX_WEIGHT * n ELSE dist[i]) + DistSum(dist, n, i + 1)

\* the measure of a loop state st.
\* cmd_bfs: an iteration dequeues one vertex and enqueues k unvisited ones,
\*   marking them visited.
\* cmd_dfs, cmd_path: an iteration pops one vertex, and when it is unvisited
\*   marks it and pushes fewer than V neighbours.
\* cmd_mst: an iteration extracts one entry, and when its vertex is not in the
\*   tree adds it and pushes fewer than V vertices.
\* cmd_shortest_path: an iteration extracts one entry and every relaxation
\*   lowers a dist by at least 1 and pushes at most one entry.
Rank(st) ==
    CASE st.alg = "cmd_bfs" -> 2 * CountFalse(st.visited) + st.scratch.size
      [] st.alg \in {"cmd_dfs", "cmd_path"} ->
             st.V * CountFalse(st.visited) + st.scratch.size
      [] st.alg = "cmd_mst" -> st.n * CountFalse(st.in_mst) + st.pq.size
      [] st.alg = "cmd_shortest_path" ->
             2 * DistSum(st.dist, st.n, 0) + st.pq.size

\* C36: each of cmd_bfs, cmd_dfs, cmd_path, cmd_mst and cmd_shortest_path
\* terminates on every graph and for every argument: a step of a loop either
\* returns or lowers a natural number, so the worklist empties or the early
\* exit fires after finitely many iterations; and the walk along parent that
\* rebuilds the shortest path ends at the source after at most V steps.
C36_Terminates ==
    [][/\ pc \in LoopPcs =>
             \/ pc' = "done"
             \/ pc' = pc /\ Rank(run') >= 0 /\ Rank(run') < Rank(run)
       /\ (pc' = "done" /\ call'.op = "cmd_shortest_path" /\ ~out'.zero)
             => /\ Len(out'.path) <= g.v_count
                /\ out'.path[1] = run'.start
      ]_vars

\* cmd_shortest_path has returned a path through every vertex of a graph of
\* NumVertices vertices: the walk along parent took V steps
C36_Witness ==
    /\ pc = "done" /\ call.op = "cmd_shortest_path" /\ ~out.zero
    /\ g.v_count = NumVertices
    /\ Len(out.path) = g.v_count


(***************************************************************************)
(* The stored graph as a function of its vertex set and pair weights,      *)
(* checked under Spec; the output of shortestPath as a function of the     *)
(* stored graph, checked under SpecSPathLong.                              *)
(***************************************************************************)
\* the names of S in ascending strcmp order
RECURSIVE SortedNames(_)
SortedNames(S) ==
    IF S = {} THEN <<>>
    ELSE LET m == CHOOSE x \in S : \A y \in S \ {x} : strcmp(x, y) < 0
         IN  <<m>> \o SortedNames(S \ {m})

\* the weight G stores for the unordered pair {u, v}, read in the list of the
\* smaller name; -1 when that list has no node for the larger one
PairWeight(G, u, v) ==
    IF strcmp(u, v) < 0 THEN graph_get_edge_weight(G, u, v)
    ELSE graph_get_edge_weight(G, v, u)

\* the state determined by G's vertex names and pair weights alone: vertices
\* ascending, each list ascending with one node per pair that has a weight,
\* v_count the number of names, e_count the number of pairs with a weight
CanonicalGraph(G) ==
    LET V == VertexNames(G)
        names == SortedNames(V)
        nbrs(u) == SortedNames({v \in V \ {u} : PairWeight(G, u, v) # -1})
    IN  [v_head |-> [i \in 1..Len(names) |->
                        [name |-> names[i],
                         adj |-> [k \in 1..Len(nbrs(names[i])) |->
                                     [dst |-> nbrs(names[i])[k],
                                      weight |-> PairWeight(G, names[i],
                                                            nbrs(names[i])[k])]]]],
         v_count |-> Cardinality(V),
         e_count |-> Cardinality({p \in V \X V : /\ strcmp(p[1], p[2]) < 0
                                                 /\ PairWeight(G, p[1], p[2]) # -1})]

\* lines 84-119: the rounds left from st on, then the line printed
RECURSIVE spath_run(_, _)
spath_run(G, st) ==
    IF IsUndefined(st) THEN Undetermined
    ELSE IF st.count < st.n - 1 /\ ~st.broke THEN spath_run(G, spath_round(G, st))
    ELSE spath_output(st)

\* shortestPath as a function of the stored graph, its arguments and the
\* bytes that follow the rows graph_get_all_vertices wrote
shortestPath(G, start, end, tail) ==
    LET st == spath_begin(G, start, end, tail)
    IN  IF IsUndefined(st) THEN Undetermined
        ELSE IF st.startIndex = -1 \/ st.endIndex = -1 THEN sp_print_zero
        ELSE spath_run(G, st)

\* C37: the stored graph is canonical, that is determined by its set of vertex
\* names and the weight of each unordered pair (vertex order, adjacency order
\* and weights, v_count, e_count), and so the output of an algorithm is
\* determined by that set, those weights and the arguments.
C37_CanonicalStore ==
    /\ g = CanonicalGraph(g)
    /\ (pc = "done" /\ call.op = "shortestPath")
          => \A tail \in TailsFor(g, {run.start, run.end}) :
                 out = shortestPath(g, run.start, run.end, tail)


(***************************************************************************)
(* The heap of cmd_mst and cmd_shortest_path, checked under SpecMstSP:     *)
(* both routines on the graphs of InitWide.                                *)
(***************************************************************************)
NextMstSP == NextMst \/ NextSPWide

SpecMstSP == InitWide /\ [][NextMstSP]_vars

\* C38: during cmd_mst and cmd_shortest_path the heap holds at most one entry
\* per vertex, so its size is at most the vertex count V given to heap_create,
\* heap_push does not grow the heap, and a vertex in the heap has an index
\* other than SIZE_MAX recorded.
C38_OneEntryPerVertex ==
    pc \in {"mst_loop", "sp_loop"}
        => /\ \A v \in 0..(run.n - 1) :
                 /\ PayloadCount(run.pq, v) <= 1
                 /\ PayloadCount(run.pq, v) = 1 => run.heap_indices[v] # SIZE_MAX
           /\ run.pq.size <= run.n
           /\ run.pq.cap = run.n

\* cmd_mst is in its loop on a graph of NumVertices vertices with every vertex
\* but the first in the heap
C38_Witness ==
    /\ pc = "mst_loop"
    /\ run.n = NumVertices
    /\ run.pq.size = run.n - 1
    /\ \A v \in 1..(run.n - 1) : PayloadCount(run.pq, v) = 1


(***************************************************************************)
(* Many vertices: graph_add_vertex called with up to MaxManyVertices       *)
(* distinct two-byte names, taken from either end of their sorted order,   *)
(* and with names already stored.                                          *)
(***************************************************************************)
MaxManyVertices == 101

\* the k-th generated name: a letter from 'A' on and a digit
ManyName(k) == <<65 + (k \div 10), 48 + (k % 10)>>

InitMany ==
    /\ g = graph_create
    /\ call = [op |-> "graph_create"]
    /\ ret = <<>>
    /\ pre = [v_count |-> 0, e_count |-> 0]
    /\ pc = "idle"
    /\ run = [alg |-> "many", lo |-> 0, hi |-> MaxManyVertices]
    /\ out = <<>>

\* graph_add_vertex(g, ManyName(k)); the names below lo and from hi on are
\* the ones already stored
AddManyVertex(k) ==
    /\ pc = "idle"
    /\ run.alg = "many"
    /\ LET r == add_vertex_result(g, ManyName(k), TRUE)
       IN  /\ g' = r.g
           /\ ret' = <<r.ret>>
    /\ call' = [op |-> "graph_add_vertex"]
    /\ pre' = [v_count |-> g.v_count, e_count |-> g.e_count]
    /\ run' = IF k = run.lo /\ run.lo < run.hi THEN [run EXCEPT !.lo = k + 1]
              ELSE IF k = run.hi - 1 /\ run.lo < run.hi THEN [run EXCEPT !.hi = k]
              ELSE run
    /\ UNCHANGED <<pc, out>>

NextMany ==
    \E k \in {run.lo, run.hi - 1, 0, MaxManyVertices - 1} \cap 0..(MaxManyVertices - 1) :
        AddManyVertex(k)

SpecMany == InitMany /\ [][NextMany]_vars

(***************************************************************************)
(* primMST, shortestPath and bfs on a graph of more vertices than their    *)
(* tables have rows: the MaxManyVertices vertices of SpecMany, each joined *)
(* to the next by an edge of weight MIN_WEIGHT.                            *)
(***************************************************************************)
\* the stored graph after graph_add_vertex for ManyName(0), .., ManyName(n - 1)
\* and graph_add_edge for each ManyName(k), ManyName(k + 1): the names are in
\* ascending order as generated, so each list holds them in that order
ChainGraph(n) ==
    LET node(k) == [dst |-> ManyName(k), weight |-> MIN_WEIGHT]
    IN  [v_head |-> [i \in 1..n |->
                        [name |-> ManyName(i - 1),
                         adj |-> (IF i > 1 THEN <<node(i - 2)>> ELSE <<>>)
                                 \o (IF i < n THEN <<node(i)>> ELSE <<>>)]],
         v_count |-> n,
         e_count |-> n - 1]

InitOverfull ==
    /\ g = ChainGraph(MaxManyVertices)
    /\ call = [op |-> "graph_create"]
    /\ ret = <<>>
    /\ pre = [v_count |-> g.v_count, e_count |-> g.e_count]
    /\ pc = "idle"
    /\ run = [alg |-> "none"]
    /\ out = <<>>

NextOverfull ==
    \/ PrimStart
    \/ SPathStart(ManyName(0), ManyName(1))
    \/ \E k \in {0, MaxManyVertices - 1} : BfsStart(ManyName(k))
    \/ BfsIter

SpecOverfull == InitOverfull /\ [][NextOverfull]_vars

\* on that graph no call of the three routines returns with an output the
\* source determines: primMST and shortestPath store past names on entry,
\* bfs stores past visited when it discovers the last vertex of the chain
OverfullUndefined ==
    /\ pc # "done"
    /\ pc \in UndefinedPcs
          => /\ IsUndefined(run) /\ out = Undetermined
             /\ call.op \in {"primMST", "shortestPath", "bfs"}
    /\ pc = "bfs_loop" => Len(run.visited) <= MAX_VERTICES

\* C39: after any sequence of graph_add_vertex calls the number of vertices is
\* at most MAX_VERTICES, so every row index graph_get_all_vertices writes
\* (0 .. count-1), which bfs, primMST and shortestPath then use for their
\* MAX_VERTICES-row arrays, is below MAX_VERTICES.
C39_VertexCountBounded ==
    /\ g.v_count <= MAX_VERTICES
    /\ \A i \in DOMAIN graph_get_all_vertices(g) : i - 1 < MAX_VERTICES

=============================================================================
